---------------------------- MODULE Spec2Model ----------------------------
(***************************************************************************)
(* MarginGuard: the hot-path rule evaluator (services/decisionEngine.ts),  *)
(* the counterfactual replay engine (services/counterfactualEngine.ts),    *)
(* the streaming statistics (services/statsEngine.ts) and the decision     *)
(* compiler (services/decisionCompiler.ts).                                *)
(*                                                                         *)
(* JavaScript values are tagged records; strings are sequences of UTF-16   *)
(* code units so that includes() and the relational operators on strings   *)
(* are computed, not assumed.  Floating-point numbers are exact rationals  *)
(* <<numerator, denominator>>; a square root is never evaluated, every     *)
(* comparison against it is decided on the squares.                        *)
(***************************************************************************)
EXTENDS Integers, Sequences, FiniteSets, TLC

VARIABLES
    pc,           \* which operation of the running specification acted last
    context,      \* hot path: the request context of the last evaluation
    activeRules,  \* hot path: the active-rules list read by evaluateRequest
    outage,       \* hot path: whether Math.random() > 0.9995 at the last call
    response,     \* hot path: what evaluateRequest did (returned or thrown)
    batch,        \* replay: the batch as it was handed to replayHistory
    heap,         \* replay: the event objects, by reference
    events,       \* replay: the input array (references into heap)
    rule,         \* replay: the CounterfactualRule being replayed
    replayed,     \* replay: the array returned by the last replayHistory call
    previous,     \* replay: the events returned by the call before the last
    window,       \* compiler: the analysis window, events per class
    analysis,     \* compiler: what the last compileDecision returned
    sample,       \* statistics: the events handed to the statistics engine
    report,       \* statistics: what the engine returned for the sample
    state,        \* App: the React state (the value the next render will show)
    view,         \* App: the state of the last render, closed over by handlers
    objects,      \* App: the arrays and DecisionObjects, by reference
    db,           \* App: the persistence collaborator's collections
    calls,        \* App: the invocations of the async handlers, in order
    console,      \* App: the last message written with console.error
    timer         \* App: the analysis interval and the thread it runs on

vars == <<pc, context, activeRules, outage, response,
          batch, heap, events, rule, replayed, previous, window, analysis,
          sample, report, state, view, objects, db, calls, console, timer>>

hotVars == <<context, activeRules, outage, response>>
replayVars == <<batch, heap, events, rule, replayed, previous>>
compileVars == <<window, analysis>>
statsVars == <<sample, report>>
appVars == <<state, view, objects, db, calls, console, timer>>

-----------------------------------------------------------------------------
(* const x = v; F(x): v is evaluated once, to a value, before F is.         *)

Bind(v, F(_)) == CHOOSE r \in { F(x) : x \in {v} } : TRUE

\* The same for three values that do not depend on one another.
Bind3(u, v, w, F(_, _, _)) == CHOOSE r \in { F(x, y, z) : x \in {u}, y \in {v}, z \in {w} } : TRUE

-----------------------------------------------------------------------------
(* Strings, as sequences of UTF-16 code units.                             *)

s_undefined == <<117, 110, 100, 101, 102, 105, 110, 101, 100>>  \* "undefined"
s_null == <<110, 117, 108, 108>>  \* "null"
s_true == <<116, 114, 117, 101>>  \* "true"
s_false == <<102, 97, 108, 115, 101>>  \* "false"
s_timeout == <<116, 105, 109, 101, 111, 117, 116>>  \* "timeout"
s_time == <<116, 105, 109, 101>>  \* "time"
s_upstream_503 == <<117, 112, 115, 116, 114, 101, 97, 109, 95, 53, 48, 51>>  \* "upstream_503"
s_reporting == <<114, 101, 112, 111, 114, 116, 105, 110, 103>>  \* "reporting"
s_chat == <<99, 104, 97, 116>>  \* "chat"
s_gpt_4 == <<103, 112, 116, 45, 52>>  \* "gpt-4"
s_gpt_35_turbo == <<103, 112, 116, 45, 51, 46, 53, 45, 116, 117, 114, 98, 111>>  \* "gpt-3.5-turbo"
s_claude_3_opus == <<99, 108, 97, 117, 100, 101, 45, 51, 45, 111, 112, 117, 115>>  \* "claude-3-opus"
s_claude_3_haiku == <<99, 108, 97, 117, 100, 101, 45, 51, 45, 104, 97, 105, 107, 117>>  \* "claude-3-haiku"
s_nullable == <<110, 117, 108, 108, 97, 98, 108, 101>>  \* "nullable"

-----------------------------------------------------------------------------
(* JavaScript values: undefined, null, booleans, integers and strings.     *)

Undef == [t |-> "undefined", n |-> 0, s |-> <<>>]
Null == [t |-> "null", n |-> 0, s |-> <<>>]
Bool(b) == [t |-> "boolean", n |-> IF b THEN 1 ELSE 0, s |-> <<>>]
Num(k) == [t |-> "number", n |-> k, s |-> <<>>]
Str(q) == [t |-> "string", n |-> 0, s |-> q]

\* A number that may be NaN.
NaN == [nan |-> TRUE, n |-> 0]
Finite(k) == [nan |-> FALSE, n |-> k]

IsDigit(c) == c >= 48 /\ c <= 57

RECURSIVE ParseDigits(_, _)
ParseDigits(q, acc) ==
    IF q = <<>> THEN acc ELSE ParseDigits(Tail(q), 10 * acc + (Head(q) - 48))

\* ToNumber of a string: "" is 0, a run of decimal digits is its value, any
\* other string of the model is NaN.
StringToNumber(q) ==
    IF q = <<>> THEN Finite(0)
    ELSE IF \A i \in 1..Len(q) : IsDigit(q[i]) THEN Finite(ParseDigits(q, 0))
    ELSE NaN

ToNumber(v) ==
    CASE v.t = "undefined" -> NaN
      [] v.t = "null" -> Finite(0)
      [] v.t = "boolean" -> Finite(v.n)
      [] v.t = "number" -> Finite(v.n)
      [] v.t = "string" -> StringToNumber(v.s)

RECURSIVE Digits(_)
Digits(k) == IF k < 10 THEN <<48 + k>> ELSE Append(Digits(k \div 10), 48 + (k % 10))

\* String(v)
JsString(v) ==
    CASE v.t = "undefined" -> s_undefined
      [] v.t = "null" -> s_null
      [] v.t = "boolean" -> (IF v.n = 1 THEN s_true ELSE s_false)
      [] v.t = "number" -> (IF v.n < 0 THEN <<45>> \o Digits(-v.n) ELSE Digits(v.n))
      [] v.t = "string" -> v.s

\* String.prototype.includes
Includes(hay, needle) ==
    \E i \in 0..(Len(hay) - Len(needle)) :
        \A j \in 1..Len(needle) : hay[i + j] = needle[j]

\* Comparison of two strings by code units.
RECURSIVE StringLess(_, _)
StringLess(a, b) ==
    IF b = <<>> THEN FALSE
    ELSE IF a = <<>> THEN TRUE
    ELSE IF Head(a) # Head(b) THEN Head(a) < Head(b)
    ELSE StringLess(Tail(a), Tail(b))

\* The abstract relational comparison a < b: "true", "false" or "undefined"
\* (an operand that converts to NaN).
Less(a, b) ==
    IF a.t = "string" /\ b.t = "string"
    THEN (IF StringLess(a.s, b.s) THEN "true" ELSE "false")
    ELSE LET x == ToNumber(a)
             y == ToNumber(b)
         IN IF x.nan \/ y.nan THEN "undefined"
            ELSE IF x.n < y.n THEN "true" ELSE "false"

JsLT(a, b) == Less(a, b) = "true"
JsGT(a, b) == Less(b, a) = "true"
JsLE(a, b) == Less(b, a) = "false"
JsGE(a, b) == Less(a, b) = "false"

\* Loose equality a == b.
LooseEq(a, b) ==
    IF a.t = b.t THEN a = b
    ELSE IF a.t \in {"undefined", "null"} \/ b.t \in {"undefined", "null"}
    THEN a.t \in {"undefined", "null"} /\ b.t \in {"undefined", "null"}
    ELSE LET x == ToNumber(a)
             y == ToNumber(b)
         IN ~x.nan /\ ~y.nan /\ x.n = y.n

-----------------------------------------------------------------------------
(* The rule DSL (types.ts) and the static catalog (AVAILABLE_RULES).        *)

Ops == {">", "<", "==", ">=", "<=", "!=", "in"}

Condition(f, o, v) == [def |-> TRUE, field |-> f, op |-> o, value |-> v]
Action(f, o, v) == [def |-> TRUE, field |-> f, op |-> o, value |-> v]
\* A rule record whose condition (action) property is undefined.
Missing == [def |-> FALSE, field |-> "", op |-> "", value |-> Undef]

CounterfactualRule(i, c, a) == [id |-> i, condition |-> c, action |-> a]

cap_retries_1 ==
    CounterfactualRule("cap_retries_1",
        Condition("retries", ">", Num(1)), Action("retries", "cap", Num(1)))
retry_only_timeout ==
    CounterfactualRule("retry_only_timeout",
        Condition("retry_reason", "!=", Str(s_timeout)), Action("retries", "cap", Num(0)))
downgrade_reporting ==
    CounterfactualRule("downgrade_reporting",
        Condition("prompt_class", "==", Str(s_reporting)),
        Action("model", "set", Str(s_claude_3_haiku)))
downgrade_reporting_gpt35 ==
    CounterfactualRule("downgrade_reporting_gpt35",
        Condition("prompt_class", "==", Str(s_reporting)),
        Action("model", "set", Str(s_gpt_35_turbo)))

AVAILABLE_RULES ==
    <<cap_retries_1, retry_only_timeout, downgrade_reporting, downgrade_reporting_gpt35>>

-----------------------------------------------------------------------------
(* HOT PATH: services/decisionEngine.ts                                    *)

\* What a call did: returned `value`, or threw.
Return(v) == [threw |-> FALSE, value |-> v]
Throw == [threw |-> TRUE, value |-> Undef]

\* An ActiveRule as rulesService.deployRule builds it from a catalog rule.
ActiveRule(i, r, s) ==
    [id |-> i, rule_id |-> r.id, deploy_state |-> s,
     condition |-> r.condition, action |-> r.action]

\* A request context: a Partial<InferenceEvent>, or null/undefined.
Context(retries, retry_reason, prompt_class) ==
    [def |-> TRUE,
     f |-> [retries |-> retries, retry_reason |-> retry_reason,
            prompt_class |-> prompt_class, model |-> Str(s_gpt_4)]]
NoContext == [def |-> FALSE, f |-> [retries |-> Undef, retry_reason |-> Undef,
                                    prompt_class |-> Undef, model |-> Undef]]

\* context[field]: undefined for a property the object does not have.
Get(obj, field) == IF field \in DOMAIN obj THEN obj[field] ELSE Undef

\* The switch of evaluateCondition on val, op and target.
hotSwitch(val, op, target) ==
    CASE op = "==" -> LooseEq(val, target)
      [] op = "!=" -> ~LooseEq(val, target)
      [] op = ">" -> JsGT(val, target)
      [] op = "<" -> JsLT(val, target)
      [] op = ">=" -> JsGE(val, target)
      [] op = "<=" -> JsLE(val, target)
      [] op = "in" -> Includes(JsString(target), JsString(val))
      [] OTHER -> FALSE

\* evaluateCondition(context, condition): reading a property of undefined or
\* null throws a TypeError.
hotEvaluateCondition(ctx, condition) ==
    IF ~condition.def \/ ~ctx.def THEN Throw
    ELSE Return(hotSwitch(Get(ctx.f, condition.field), condition.op, condition.value))

Allow == [decision |-> "ALLOW", keys |-> {"decision", "latency_overhead_ms"},
          overrides |-> {}, rule_id |-> ""]

\* Variant: the override is keyed by the field the condition read.
MatchResponse_conditionField(r) ==
    [decision |-> "CONDITIONAL",
     keys |-> {"decision", "overrides", "rule_id", "latency_overhead_ms"},
     overrides |-> {<<r.condition.field, r.action.value>>},
     rule_id |-> r.id]

\* The response of a matching rule: overrides is {[rule.action.field]: rule.action.value}.
MatchResponse(r) ==
    [decision |-> "CONDITIONAL",
     keys |-> {"decision", "overrides", "rule_id", "latency_overhead_ms"},
     overrides |-> {<<r.action.field, r.action.value>>},
     rule_id |-> r.id]

\* Variant: only disabled rules are skipped, shadow rules are enforced.
Honoured_shadow(r) == r.deploy_state # "disabled"

\* Whether the loop looks at a rule at all.
Honoured(r) == r.deploy_state = "active"

\* The for..of loop over activeRules, from position i on.
RECURSIVE IterateRules(_, _, _)
IterateRules(ctx, rules, i) ==
    IF i > Len(rules) THEN Return(Allow)
    ELSE IF ~Honoured(rules[i]) THEN IterateRules(ctx, rules, i + 1)
    ELSE LET isMatch == hotEvaluateCondition(ctx, rules[i].condition)
         IN IF isMatch.threw THEN Throw
            ELSE IF isMatch.value
            THEN (IF rules[i].action.def THEN Return(MatchResponse(rules[i])) ELSE Throw)
            ELSE IterateRules(ctx, rules, i + 1)

\* The try block: the simulated outage first, then the rules.
TryBlock(ctx, rules, down) ==
    IF down THEN Return(Allow) ELSE IterateRules(ctx, rules, 1)

\* Variant: the catch block rethrows.
CatchBlock_rethrow == Throw

\* The catch block.
CatchBlock == Return(Allow)

evaluateRequest(ctx, rules, down) ==
    LET body == TryBlock(ctx, rules, down)
    IN IF body.threw THEN CatchBlock ELSE body

-----------------------------------------------------------------------------
(* Exact rationals <<numerator, denominator>>, denominator > 0, reduced.   *)

RECURSIVE GCD(_, _)
GCD(a, b) == IF b = 0 THEN a ELSE GCD(b, a % b)

Abs(x) == IF x < 0 THEN -x ELSE x

Rat(a, b) ==
    LET g == GCD(Abs(a), Abs(b))
        sgn == IF b < 0 THEN -1 ELSE 1
    IN <<sgn * (a \div g), sgn * (b \div g)>>

RInt(k) == <<k, 1>>
Zero == <<0, 1>>
One == <<1, 1>>

\* The integer parts are added apart from the fractional parts, so that no
\* number larger than the sum itself is formed.
RAdd(x, y) ==
    LET g == GCD(x[2], y[2])
        fraction == Rat((x[1] % x[2]) * (y[2] \div g) + (y[1] % y[2]) * (x[2] \div g),
                        (x[2] \div g) * y[2])
    IN <<((x[1] \div x[2]) + (y[1] \div y[2])) * fraction[2] + fraction[1], fraction[2]>>
RNeg(x) == <<-x[1], x[2]>>
RSub(x, y) == RAdd(x, RNeg(y))
RMul(x, y) == LET a == Rat(x[1], y[2])
                  b == Rat(y[1], x[2])
              IN <<a[1] * b[1], a[2] * b[2]>>
\* x / y for y # 0
RDiv(x, y) == RMul(x, Rat(y[2], y[1]))
\* a/b < c/d for b, d > 0, by the integer parts and then the inverted
\* fractional parts: no product is formed.
RECURSIVE FractionLess(_, _, _, _)
FractionLess(a, b, c, d) ==
    IF a \div b # c \div d THEN a \div b < c \div d
    ELSE IF c % d = 0 THEN FALSE
    ELSE IF a % b = 0 THEN TRUE
    ELSE FractionLess(d, c % d, b, a % b)
RLess(x, y) == FractionLess(x[1], x[2], y[1], y[2])
RLeq(x, y) == ~RLess(y, x)
RMin(x, y) == IF RLess(y, x) THEN y ELSE x
RMax(x, y) == IF RLess(x, y) THEN y ELSE x
RSquare(x) == RMul(x, x)
\* Math.floor
Floor(x) == x[1] \div x[2]

-----------------------------------------------------------------------------
(* COLD PATH: services/counterfactualEngine.ts                             *)

\* An InferenceEvent.  cost_usd is a rational; the other fields hold
\* JavaScript values.  No condition of the model reads cost_usd.
Event(org, model, class, tin, tout, retries, reason, cost) ==
    [org_id |-> org, model |-> Str(model), prompt_class |-> Str(class),
     tokens_in |-> Num(tin), tokens_out |-> Num(tout),
     retries |-> Num(retries), retry_reason |-> reason, cost_usd |-> cost]

ValueFields == {"model", "prompt_class", "tokens_in", "tokens_out", "retries", "retry_reason"}

\* event[condition.field]
EventGet(e, field) == IF field \in ValueFields THEN e[field] ELSE Undef

\* The switch of the engine's evaluateCondition on eventValue, op and val.
cfSwitch(eventValue, op, val) ==
    CASE op = ">" -> JsGT(eventValue, val)
      [] op = "<" -> JsLT(eventValue, val)
      [] op = "==" -> LooseEq(eventValue, val)
      [] op = ">=" -> JsGE(eventValue, val)
      [] op = "<=" -> JsLE(eventValue, val)
      [] op = "in" -> Includes(JsString(val), JsString(eventValue))
      [] OTHER -> FALSE

evaluateCondition(e, condition) ==
    cfSwitch(EventGet(e, condition.field), condition.op, condition.value)

\* Variant: no copy is made, newEvent is the event itself.
Spread_alias(h, ref) == [heap |-> h, ref |-> ref]

\* const newEvent = { ...event }: a new object holding the fields of h[ref].
Spread(h, ref) == [heap |-> Append(h, h[ref]), ref |-> Len(h) + 1]

\* Variant: the ratio is taken upside down.
capRatio_inverted(originalExecutions, newExecutions) ==
    Rat(originalExecutions, newExecutions)

\* ratio = newExecutions / originalExecutions
capRatio(originalExecutions, newExecutions) ==
    Rat(newExecutions, originalExecutions)

\* Variant: the costs and tokens are rescaled and retries is left as it was.
capRetries_keepCount(e, action) ==
    IF action.field = "retries" /\ action.op = "cap"
    THEN LET cap == ToNumber(action.value)
         IN IF ~cap.nan /\ e.retries.n > cap.n
            THEN [e EXCEPT !.cost_usd = RMul(e.cost_usd, capRatio(1 + e.retries.n, 1 + cap.n))]
            ELSE e
    ELSE e

\* if (action.field === 'retries' && action.op === 'cap') { ... }
capRetries(e, action) ==
    IF action.field = "retries" /\ action.op = "cap"
    THEN LET cap == ToNumber(action.value)
         IN IF ~cap.nan /\ e.retries.n > cap.n
            THEN LET ratio == capRatio(1 + e.retries.n, 1 + cap.n)
                 IN [e EXCEPT !.retries = Num(cap.n),
                              !.cost_usd = RMul(e.cost_usd, ratio),
                              !.tokens_in = Num(Floor(RMul(RInt(e.tokens_in.n), ratio))),
                              !.tokens_out = Num(Floor(RMul(RInt(e.tokens_out.n), ratio)))]
            ELSE e
    ELSE e

\* costMap[model] || 0.01
costMap(model) ==
    CASE model = s_gpt_4 -> Rat(3, 100)
      [] model = s_gpt_35_turbo -> Rat(3, 2000)
      [] model = s_claude_3_opus -> Rat(3, 40)
      [] model = s_claude_3_haiku -> Rat(1, 800)
      [] OTHER -> Rat(1, 100)

\* if (action.field === 'model' && action.op === 'set') { ... }
setModel(e, action) ==
    IF action.field = "model" /\ action.op = "set"
    THEN LET targetModel == JsString(action.value)
         IN IF targetModel # e.model.s
            THEN LET ratio == RDiv(costMap(targetModel), costMap(e.model.s))
                 IN [e EXCEPT !.model = Str(targetModel),
                              !.cost_usd = RMul(e.cost_usd, ratio)]
            ELSE e
    ELSE e

\* applyAction(event, action) on the event object h[ref]: the heap after the
\* call and the reference returned, 0 for null.
applyAction(h, ref, action) ==
    IF action.op = "drop" THEN [heap |-> h, ref |-> 0]
    ELSE LET c == Spread(h, ref)
             newEvent == c.heap[c.ref]
             mutated == IF action.field # "event"
                        THEN setModel(capRetries(newEvent, action), action)
                        ELSE newEvent
         IN [heap |-> [c.heap EXCEPT ![c.ref] = mutated], ref |-> c.ref]

\* Variant: events the rule does not match are left out of the result.
replayStep_matchedOnly(acc, ref, r) ==
    IF evaluateCondition(acc.heap[ref], r.condition)
    THEN LET mutated == applyAction(acc.heap, ref, r.action)
         IN [heap |-> mutated.heap,
             result |-> IF mutated.ref # 0 THEN Append(acc.result, mutated.ref)
                        ELSE acc.result]
    ELSE acc

\* One turn of the loop of replayHistory on event reference ref.
replayStep(acc, ref, r) ==
    IF evaluateCondition(acc.heap[ref], r.condition)
    THEN LET mutated == applyAction(acc.heap, ref, r.action)
         IN [heap |-> mutated.heap,
             result |-> IF mutated.ref # 0 THEN Append(acc.result, mutated.ref)
                        ELSE acc.result]
    ELSE [heap |-> acc.heap, result |-> Append(acc.result, ref)]

\* The turns of the loop on evs[lo], ..., evs[hi], in this order; the range
\* is taken in two halves so that the depth of the evaluation stays small.
RECURSIVE replayRange(_, _, _, _, _)
replayRange(acc, evs, lo, hi, r) ==
    IF lo >= hi THEN (IF lo > hi THEN acc ELSE replayStep(acc, evs[lo], r))
    ELSE CHOOSE result \in
             { replayRange(half, evs, (lo + hi) \div 2 + 1, hi, r) :
                   half \in {replayRange(acc, evs, lo, (lo + hi) \div 2, r)} } : TRUE

\* The loop of replayHistory from position i on.
replayFrom(acc, evs, i, r) == replayRange(acc, evs, i, Len(evs), r)

\* replayHistory(events, rule): the heap after the call and the array returned.
replayHistory(h, evs, r) == replayFrom([heap |-> h, result |-> <<>>], evs, 1, r)

\* The events an array of references holds.
Deref(h, refs) == [i \in 1..Len(refs) |-> h[refs[i]]]

-----------------------------------------------------------------------------
(* Inputs of the hot path.                                                 *)

MaxRules == 2

RulePool ==
    { ActiveRule("r1", cap_retries_1, "active"),
      ActiveRule("r2", retry_only_timeout, "active"),
      ActiveRule("r3", downgrade_reporting, "shadow"),
      ActiveRule("r4", downgrade_reporting_gpt35, "disabled"),
      ActiveRule("r5", downgrade_reporting, "active"),
      \* a stored document without a condition
      [ActiveRule("r6", cap_retries_1, "active") EXCEPT !.condition = Missing],
      \* a stored document without an action
      [ActiveRule("r7", downgrade_reporting_gpt35, "active") EXCEPT !.action = Missing],
      \* an operator the evaluator does not know
      ActiveRule("r8", CounterfactualRule("custom",
          Condition("prompt_class", "contains", Str(s_chat)),
          Action("model", "set", Str(s_gpt_35_turbo))), "active"),
      ActiveRule("r9", CounterfactualRule("custom",
          Condition("retry_reason", "in", Str(s_nullable)),
          Action("retries", "cap", Num(0))), "active"),
      ActiveRule("r10", CounterfactualRule("custom",
          Condition("retries", "<=", Num(0)),
          Action("model", "set", Str(s_claude_3_haiku))), "active") }

\* The lists of at most MaxRules stored rules, each document once.
RuleLists ==
    { l \in UNION { [1..k -> RulePool] : k \in 0..MaxRules } :
        \A i, j \in DOMAIN l : i # j => l[i].id # l[j].id }

Contexts ==
    { Context(a, b, c) : a \in {Undef, Num(0), Num(3)},
                         b \in {Undef, Null, Str(s_timeout)},
                         c \in {Undef, Str(s_reporting), Str(s_chat)} }
    \cup {NoContext}

ReplayIdle ==
    /\ batch = <<>>
    /\ heap = <<>>
    /\ events = <<>>
    /\ rule = cap_retries_1
    /\ replayed = <<>>
    /\ previous = <<>>

HotIdle ==
    /\ context = NoContext
    /\ activeRules = <<>>
    /\ outage = FALSE
    /\ response = Return(Allow)

CompileIdle ==
    /\ window = <<>>
    /\ analysis = [null |-> TRUE]

StatsIdle ==
    /\ sample = <<>>
    /\ report = [of |-> "nothing"]

\* The useState initial values of App (part_001:66-89); latestDecision and
\* activeRules hold references into objects, 0 for null.  `overriding` is
\* the decision that was on screen when Override was clicked, 0 while the
\* override input is closed.
Mounted ==
    [user |-> FALSE, mode |-> "IDLE", latestDecision |-> 0,
     showOverrideInput |-> FALSE, activeRules |-> 1, overriding |-> 0]

AppIdle ==
    /\ state = Mounted
    /\ view = Mounted
    /\ objects = [arrays |-> << <<>> >>, decisions |-> <<>>]
    /\ db = [rules |-> <<>>, feedback |-> <<>>, docs |-> 0]
    /\ calls = <<>>
    /\ console = ""
    /\ timer = [running |-> 0, pending |-> 0]

InitHot ==
    /\ pc = "idle"
    /\ context = NoContext
    /\ activeRules \in RuleLists
    /\ outage = FALSE
    /\ response = Return(Allow)
    /\ ReplayIdle
    /\ CompileIdle
    /\ StatsIdle
    /\ AppIdle

\* One request of the traffic loop: evaluateRequest(rawRequest, activeRules).
Evaluate ==
    \E ctx \in Contexts, down \in BOOLEAN :
        /\ context' = ctx
        /\ outage' = down
        /\ response' = evaluateRequest(ctx, activeRules, down)
        /\ pc' = "evaluated"
        /\ UNCHANGED <<activeRules, replayVars, compileVars, statsVars, appVars>>

NextHot == Evaluate

SpecHot == InitHot /\ [][NextHot]_vars

-----------------------------------------------------------------------------
(* Properties of the hot path (SpecHot).                                   *)

Evaluated == pc = "evaluated"

\* The condition of rule r is true of the request, by the JavaScript
\* semantics of the seven operators.
Matches(ctx, r) ==
    /\ ctx.def
    /\ r.condition.def
    /\ r.condition.op \in Ops
    /\ LET val == Get(ctx.f, r.condition.field)
           target == r.condition.value
       IN CASE r.condition.op = "==" -> LooseEq(val, target)
            [] r.condition.op = "!=" -> ~LooseEq(val, target)
            [] r.condition.op = ">" -> JsGT(val, target)
            [] r.condition.op = "<" -> JsLT(val, target)
            [] r.condition.op = ">=" -> JsGE(val, target)
            [] r.condition.op = "<=" -> JsLE(val, target)
            [] r.condition.op = "in" -> Includes(JsString(target), JsString(val))

ActiveMatch(i) ==
    activeRules[i].deploy_state = "active" /\ Matches(context, activeRules[i])

FirstActiveMatch(i) ==
    ActiveMatch(i) /\ \A j \in 1..(i - 1) : ~ActiveMatch(j)

\* An exception was raised inside the try block of the last call.
Raised == TryBlock(context, activeRules, outage).threw

\* An internal fault: the simulated outage, or an exception.
Fault == outage \/ Raised

AllowOnly(r) ==
    /\ r.decision = "ALLOW"
    /\ "overrides" \notin r.keys
    /\ "rule_id" \notin r.keys

\* C1: for every context (null included) and every rules list (malformed
\* rules included) evaluateRequest returns, never throws, never returns
\* BLOCK, and answers ALLOW without overrides and without rule_id whenever a
\* fault occurred during the evaluation.
C1_FailOpen ==
    Evaluated =>
        /\ ~response.threw
        /\ response.value.decision # "BLOCK"
        /\ Fault => AllowOnly(response.value)

\* An exception raised by a malformed rule or a null context was caught.
C1_Witness == Evaluated /\ ~outage /\ Raised /\ activeRules # <<>>

\* C2: a returned rule_id is that of the first rule, in list order, that is
\* active and matches; shadow and disabled rules never decide; nothing after
\* the first matching active rule is consulted (the answer is that of the
\* list cut after it).
C2_FirstMatchWins ==
    (Evaluated /\ "rule_id" \in response.value.keys) =>
        \E i \in DOMAIN activeRules :
            /\ FirstActiveMatch(i)
            /\ response.value.rule_id = activeRules[i].id
            /\ response = evaluateRequest(context, SubSeq(activeRules, 1, i), outage)

\* The second rule decided, the first being shadow or disabled though its
\* condition matches.
C2_Witness ==
    /\ Evaluated
    /\ Len(activeRules) = 2
    /\ activeRules[1].deploy_state # "active"
    /\ Matches(context, activeRules[1])
    /\ response.value.rule_id = activeRules[2].id

\* C3 as stated: whenever an active rule matches, the answer is CONDITIONAL
\* with overrides exactly {action.field: action.value} of the first such
\* rule; whenever none matches, ALLOW without overrides.
C3_Original ==
    Evaluated =>
        IF \E i \in DOMAIN activeRules : ActiveMatch(i)
        THEN \E i \in DOMAIN activeRules :
                /\ FirstActiveMatch(i)
                /\ response.value.decision = "CONDITIONAL"
                /\ response.value.overrides =
                       {<<activeRules[i].action.field, activeRules[i].action.value>>}
        ELSE AllowOnly(response.value)

\* C3 as amended: unless a fault occurred (then the answer is ALLOW without
\* overrides), a match of an active rule gives CONDITIONAL with overrides
\* exactly {action.field: action.value} of the first such rule, verbatim;
\* with no active match the answer is ALLOW without overrides.
C3_Overrides ==
    Evaluated =>
        IF Fault THEN AllowOnly(response.value)
        ELSE IF \E i \in DOMAIN activeRules : ActiveMatch(i)
        THEN \E i \in DOMAIN activeRules :
                /\ FirstActiveMatch(i)
                /\ response.value.decision = "CONDITIONAL"
                /\ "overrides" \in response.value.keys
                /\ response.value.overrides =
                       {<<activeRules[i].action.field, activeRules[i].action.value>>}
        ELSE AllowOnly(response.value)

\* A rule whose action writes another field than its condition reads decided.
C3_Witness ==
    /\ Evaluated
    /\ ~Fault
    /\ \E i \in DOMAIN activeRules :
          /\ FirstActiveMatch(i)
          /\ activeRules[i].action.field # activeRules[i].condition.field
          /\ response.value.rule_id = activeRules[i].id

\* The rule's condition field is absent or null in the request, or its
\* operator is not one of the seven.
Unmatchable(ctx, r) ==
    /\ ctx.def
    /\ r.condition.def
    /\ r.action.def
    /\ \/ r.condition.op \notin Ops
       \/ Get(ctx.f, r.condition.field) \in {Undef, Null}

\* C4: a rule with an unknown operator, or whose condition field is absent or
\* null in the request, is a non-match whatever the operator, and never
\* produces a CONDITIONAL decision.
C4_MissingFieldNoMatch ==
    Evaluated =>
        \A i \in DOMAIN activeRules :
            Unmatchable(context, activeRules[i]) =>
                /\ ~hotEvaluateCondition(context, activeRules[i].condition).value
                /\ ~( /\ response.value.decision = "CONDITIONAL"
                      /\ response.value.rule_id = activeRules[i].id )

-----------------------------------------------------------------------------
(* services/statsEngine.ts: StreamingStats                                 *)

reservoirSize == 1000

Infinite == [inf |-> TRUE, v |-> Zero]
Bounded(x) == [inf |-> FALSE, v |-> x]

\* new StreamingStats()
NewStats ==
    [count |-> 0, mean |-> Zero, M2 |-> Zero,
     min |-> Infinite, max |-> Infinite, reservoir |-> <<>>]

\* Variant: the value is pushed whether the reservoir is full or not.
update_push(st, value, j) ==
    [st EXCEPT !.count = @ + 1, !.reservoir = Append(@, value)]

\* update(value); j is the index Math.floor(Math.random() * count) drawn
\* once the reservoir is full.
update(st, value, j) ==
    LET count == st.count + 1
        delta == RSub(value, st.mean)
        mean == RAdd(st.mean, RDiv(delta, RInt(count)))
        delta2 == RSub(value, mean)
    IN [count |-> count,
        mean |-> mean,
        M2 |-> RAdd(st.M2, RMul(delta, delta2)),
        min |-> IF st.min.inf \/ RLess(value, st.min.v) THEN Bounded(value) ELSE st.min,
        max |-> IF st.max.inf \/ RLess(st.max.v, value) THEN Bounded(value) ELSE st.max,
        reservoir |->
            IF Len(st.reservoir) < reservoirSize THEN Append(st.reservoir, value)
            ELSE IF j < reservoirSize THEN [st.reservoir EXCEPT ![j + 1] = value]
            ELSE st.reservoir]

\* getVariance()
getVariance(st) == IF st.count < 2 THEN Zero ELSE RDiv(st.M2, RInt(st.count - 1))

\* The updates by xs[lo], ..., xs[hi], in this order; the range is taken in
\* two halves so that the depth of the evaluation stays small.
RECURSIVE updateRange(_, _, _, _)
updateRange(st, xs, lo, hi) ==
    IF lo >= hi THEN (IF lo > hi THEN st ELSE update(st, xs[lo], 0))
    ELSE CHOOSE result \in
             { updateRange(half, xs, (lo + hi) \div 2 + 1, hi) :
                   half \in {updateRange(st, xs, lo, (lo + hi) \div 2)} } : TRUE

\* xs.forEach(c => stats.update(c)), from position i on; the reservoir is
\* never full for the batches of the model, and the draw is not made.
updateAll(st, xs, i) == updateRange(st, xs, i, Len(xs))

Costs(evs) == [i \in 1..Len(evs) |-> evs[i].cost_usd]

\* The mean getStats reports for a batch of events.
MeanCost(evs) == Bind(Costs(evs), LAMBDA costs : updateAll(NewStats, costs, 1).mean)

\* The StreamingStats fed with the costs of evs.
statsOf(evs) == Bind(Costs(evs), LAMBDA costs : updateAll(NewStats, costs, 1))

\* Whether value > mean + 2 * stdDev, decided on the squares.
aboveThreshold(value, mean, variance) ==
    Bind(RSub(value, mean),
         LAMBDA d : RLess(Zero, d) /\ RLess(RMul(RInt(4), variance), RSquare(d)))

\* The share of the events that satisfy Test, 0 for no event.
shareOf(evs, Test(_)) ==
    IF Len(evs) > 0 THEN Rat(Cardinality({ i \in DOMAIN evs : Test(evs[i]) }), Len(evs))
    ELSE Zero

\* mean > 0 ? stdDev / mean : 0, squared
cvSquared(mean, variance) ==
    IF RLess(Zero, mean) THEN RDiv(variance, RSquare(mean)) ELSE Zero

\* The extreme as it stands in the engine.
reportedExtreme_raw(extreme) == extreme

\* this.min === Infinity ? 0 : this.min, and the same for max and -Infinity
reportedExtreme(extreme) == IF extreme.inf THEN Bounded(Zero) ELSE extreme

\* getStats(events).  std_dev, cv and instability_index are square roots:
\* the record holds their squares.  The quantiles p50..p99 are left out.
getStats(st, evs) ==
    Bind(getVariance(st), LAMBDA variance :
    Bind3(shareOf(evs, LAMBDA e : aboveThreshold(e.cost_usd, st.mean, variance)),
          shareOf(evs, LAMBDA e : e.retries.n > 0),
          cvSquared(st.mean, variance),
          LAMBDA tailMass, retryRate, cvSq :
        [count |-> st.count,
         mean |-> st.mean,
         variance |-> variance,
         std_dev_sq |-> variance,
         cv_sq |-> cvSq,
         min |-> reportedExtreme(st.min),
         max |-> reportedExtreme(st.max),
         tail_mass |-> tailMass,
         instability_index_sq |->
             RMul(cvSq, RSquare(RMul(tailMass, RAdd(One, retryRate))))]))

\* 10^k
RECURSIVE Pow10(_)
Pow10(k) == IF k = 0 THEN 1 ELSE 10 * Pow10(k - 1)

\* The digits of rem/den after the point, by long division: the integer
\* scaled * 10^k + floor(rem * 10^k / den), and the remainder left.
RECURSIVE longDivision(_, _, _, _)
longDivision(scaled, rem, den, k) ==
    IF k = 0 THEN [scaled |-> scaled, rem |-> rem]
    ELSE longDivision(10 * scaled + ((10 * rem) \div den), (10 * rem) % den, den, k - 1)

\* parseFloat(x.toFixed(digits)) for x >= 0: x rounded to that many decimals,
\* half up.
toFixed(x, digits) ==
    Bind(longDivision(x[1] \div x[2], x[1] % x[2], x[2], digits),
         LAMBDA d : Rat(IF 2 * d.rem >= x[2] THEN d.scaled + 1 ELSE d.scaled, Pow10(digits)))

\* The additions of xs[lo], ..., xs[hi] to acc, in this order; the range is
\* taken in two halves as in updateRange.
RECURSIVE sumRange(_, _, _, _)
sumRange(acc, xs, lo, hi) ==
    IF lo >= hi THEN (IF lo > hi THEN acc ELSE RAdd(acc, xs[lo]))
    ELSE CHOOSE result \in
             { sumRange(half, xs, (lo + hi) \div 2 + 1, hi) :
                   half \in {sumRange(acc, xs, lo, (lo + hi) \div 2)} } : TRUE

\* The distinct values of a sequence, in the order of their first occurrence
\* (the order of the keys of the object they are kept in).
firstOccurrences(xs) ==
    Bind(SelectSeq([i \in 1..Len(xs) |-> i],
                   LAMBDA i : \A j \in 1..(i - 1) : xs[j] # xs[i]),
         LAMBDA firsts : [k \in 1..Len(firsts) |-> xs[firsts[k]]])

\* String(e[dim])
groupKey(e, dim) == JsString(EventGet(e, dim))

groupCosts(evs, dim, key) == Costs(SelectSeq(evs, LAMBDA e : groupKey(e, dim) = key))

\* groupCosts.length * (meanDiff * meanDiff)
groupTerm(costs, globalMean) ==
    Bind(RSub(getStats(updateAll(NewStats, costs, 1), <<>>).mean, globalMean),
         LAMBDA meanDiff : RMul(RInt(Len(costs)), RSquare(meanDiff)))

\* Object.keys(groups), in the order of the first events (the sum taken
\* over the groups does not depend on the order).
groupKeys(evs, dim) == firstOccurrences([i \in 1..Len(evs) |-> groupKey(evs[i], dim)])

\* The sum over the groups of groupCosts.length * meanDiff^2.
weightedMeanVariance(evs, dim, globalMean) ==
    Bind(groupKeys(evs, dim), LAMBDA keys :
    Bind([k \in 1..Len(keys) |-> groupTerm(groupCosts(evs, dim, keys[k]), globalMean)],
         LAMBDA terms : sumRange(Zero, terms, 1, Len(terms))))

\* const contribution = Math.min(varianceExplained / totalVariance, 1.0)
varianceShare(evs, dim, globalMean, totalVariance) ==
    Bind(RDiv(weightedMeanVariance(evs, dim, globalMean), RInt(Len(evs) - 1)),
         LAMBDA varianceExplained : RMin(RDiv(varianceExplained, totalVariance), One))

\* result[dim] = parseFloat(contribution.toFixed(4))
contribution(evs, dim, globalMean, totalVariance) ==
    Bind(varianceShare(evs, dim, globalMean, totalVariance), LAMBDA share :
        toFixed(share, 4))

\* {}: the mapping without a key.
EmptyDecomposition == [key \in {} |-> Zero]

\* The remainder without Math.max(0, ...).
noiseOf_signed(explainedVarianceSum) == RSub(One, explainedVarianceSum)

\* result['noise'] = Math.max(0, parseFloat((1 - explainedVarianceSum).toFixed(4)))
noiseOf(explainedVarianceSum) ==
    Bind(RMax(Zero, RSub(One, explainedVarianceSum)),
         LAMBDA remainder : RMax(Zero, toFixed(remainder, 4)))

\* The decomposition for a total variance that is not 0.
decomposition(evs, globalMean, totalVariance) ==
    Bind3(contribution(evs, "model", globalMean, totalVariance),
          contribution(evs, "prompt_class", globalMean, totalVariance),
          contribution(evs, "retries", globalMean, totalVariance),
          LAMBDA model, class, retries :
        [model |-> model, prompt_class |-> class, retries |-> retries,
         noise |-> noiseOf(RAdd(RAdd(model, class), retries))])

\* The test of decomposeVariance with 4 for 5.
tooFewToDecompose_four(evs) == Len(evs) < 4

\* events.length < 5
tooFewToDecompose(evs) == Len(evs) < 5

\* decomposeVariance(events): {} or a mapping with the keys model,
\* prompt_class, retries and noise, in this order.
decomposeVariance(evs) ==
    IF tooFewToDecompose(evs) THEN EmptyDecomposition
    ELSE Bind(statsOf(evs), LAMBDA globalStats :
         Bind(getVariance(globalStats), LAMBDA totalVariance :
             IF totalVariance = Zero THEN EmptyDecomposition
             ELSE decomposition(evs, getStats(globalStats, <<>>).mean, totalVariance)))

\* sort((a, b) => b.share - a.share): stable, descending by `by`.
RECURSIVE insertDescending(_, _, _)
insertDescending(sorted, item, by) ==
    IF sorted = <<>> THEN <<item>>
    ELSE IF RLess(Head(sorted)[by], item[by])
    THEN <<item>> \o sorted
    ELSE <<Head(sorted)>> \o insertDescending(Tail(sorted), item, by)

RECURSIVE sortDescending(_, _, _)
sortDescending(items, i, by) ==
    IF i = 0 THEN <<>>
    ELSE insertDescending(sortDescending(items, i - 1, by), items[i], by)

\* e.retry_reason as a condition: null and "" are falsy.
truthyReason(e) == e.retry_reason.t = "string" /\ e.retry_reason.s # <<>>

\* The reasons of the retried events.
retryReasons(evs) ==
    Bind(SelectSeq(evs, LAMBDA e : e.retries.n > 0 /\ truthyReason(e)),
         LAMBDA retriedEvents :
             [i \in 1..Len(retriedEvents) |-> retriedEvents[i].retry_reason.s])

\* Object.entries(counts).map(([cause, count]) => ({ cause, share: count / total }))
causeShares(reasons, keys) ==
    [k \in 1..Len(keys) |->
        [cause |-> keys[k],
         share |-> Rat(Cardinality({ i \in DOMAIN reasons : reasons[i] = keys[k] }),
                       Len(reasons))]]

\* analyzeRetryCauses(events).top_causes
analyzeRetryCauses(evs) ==
    Bind(retryReasons(evs), LAMBDA reasons :
    Bind(firstOccurrences(reasons), LAMBDA keys :
    Bind(causeShares(reasons, keys), LAMBDA causes :
        sortDescending(causes, Len(causes), "share"))))

\* evs.reduce((acc, e) => acc + e.cost_usd, acc), from position i on.
sumCosts(acc, evs, i) == sumRange(acc, Costs(evs), i, Len(evs))

\* The share of a set of events in the tenants of the window.
tenantShare(evs, problematicEvents) ==
    Bind({ evs[i].org_id : i \in DOMAIN evs }, LAMBDA uniqueTenants :
        IF Cardinality(uniqueTenants) > 0
        THEN Rat(Cardinality({ problematicEvents[i].org_id : i \in DOMAIN problematicEvents }),
                 Cardinality(uniqueTenants))
        ELSE Zero)

\* The share of a set of events in the revenue of the window.
revenueShare(evs, problematicEvents) ==
    Bind(sumCosts(Zero, evs, 1), LAMBDA totalRevenue :
        IF RLess(Zero, totalRevenue)
        THEN RDiv(sumCosts(Zero, problematicEvents, 1), totalRevenue)
        ELSE Zero)

\* analyzeBlastRadius(events, problematicEvents), without top_3_tenants.
analyzeBlastRadius(evs, problematicEvents) ==
    [affected_tenants_pct |-> tenantShare(evs, problematicEvents),
     affected_revenue_pct |-> revenueShare(evs, problematicEvents)]

-----------------------------------------------------------------------------
(* Inputs of the replay.                                                   *)

MaxBatch == 3

EventPool ==
    { Event("acme_corp", s_gpt_35_turbo, s_chat, 300, 700, 0, Null, RInt(2)),
      Event("acme_corp", s_gpt_4, s_reporting, 301, 700, 2, Str(s_timeout), RInt(9)),
      Event("globex", s_gpt_4, s_reporting, 450, 1051, 3, Str(s_upstream_503), RInt(12)),
      Event("globex", s_claude_3_opus, s_chat, 200, 500, 1, Str(s_upstream_503), RInt(4)),
      Event("acme_corp", s_claude_3_haiku, s_reporting, 150, 350, 0, Null, RInt(1)),
      Event("globex", s_gpt_4, s_chat, 0, 0, 2, Str(s_timeout), Zero) }

Batches == UNION { [1..k -> EventPool] : k \in 0..MaxBatch }

\* A rule no event of the pool matches.
noop_rule ==
    CounterfactualRule("noop",
        Condition("retries", ">", Num(9)), Action("retries", "cap", Num(0)))
\* A rule that drops events.
drop_reporting ==
    CounterfactualRule("drop_reporting",
        Condition("prompt_class", "==", Str(s_reporting)), Action("event", "drop", Bool(TRUE)))
\* A rule with the 'in' operator.
in_rule ==
    CounterfactualRule("in_rule",
        Condition("retry_reason", "in", Str(s_timeout)), Action("retries", "cap", Num(0)))
\* A rule with an operator outside the DSL.
unknown_op_rule ==
    CounterfactualRule("unknown_op",
        Condition("retries", "=>", Num(0)), Action("retries", "cap", Num(0)))

\* Rules whose actions cap or set a field other than the catalog's, or drop
\* with a field named.
cap_tokens ==
    CounterfactualRule("cap_tokens",
        Condition("tokens_in", ">", Num(0)), Action("tokens_in", "cap", Num(200)))
cap_retries_2 ==
    CounterfactualRule("cap_retries_2",
        Condition("retries", ">=", Num(0)), Action("retries", "cap", Num(2)))
set_class ==
    CounterfactualRule("set_class",
        Condition("prompt_class", "==", Str(s_reporting)), Action("prompt_class", "set", Str(s_chat)))
drop_retried ==
    CounterfactualRule("drop_retried",
        Condition("retries", ">", Num(1)), Action("retries", "drop", Num(0)))

ReplayRules ==
    { cap_retries_1, retry_only_timeout, downgrade_reporting, downgrade_reporting_gpt35,
      noop_rule, drop_reporting, in_rule, unknown_op_rule,
      cap_tokens, cap_retries_2, set_class, drop_retried }

InitReplay ==
    /\ pc = "input"
    /\ batch \in Batches
    /\ rule \in ReplayRules
    /\ heap = batch
    /\ events = [i \in 1..Len(batch) |-> i]
    /\ replayed = <<>>
    /\ previous = <<>>
    /\ HotIdle
    /\ CompileIdle
    /\ StatsIdle
    /\ AppIdle

\* A call replayHistory(events, rule); the first, then one more with the
\* same arguments.
Replay ==
    /\ pc \in {"input", "replayed"}
    /\ LET r == replayHistory(heap, events, rule)
       IN /\ heap' = r.heap
          /\ replayed' = r.result
    /\ previous' = Deref(heap, replayed)
    /\ pc' = IF pc = "input" THEN "replayed" ELSE "again"
    /\ UNCHANGED <<batch, events, rule, hotVars, compileVars, statsVars, appVars>>

\* replayHistory(replayHistory(events, rule), rule): the call on the array the
\* first call returned.
ReplayOutput ==
    /\ pc = "replayed"
    /\ LET r == replayHistory(heap, replayed, rule)
       IN /\ heap' = r.heap
          /\ replayed' = r.result
    /\ previous' = Deref(heap, replayed)
    /\ pc' = "twice"
    /\ UNCHANGED <<batch, events, rule, hotVars, compileVars, statsVars, appVars>>

NextReplay == Replay \/ ReplayOutput

SpecReplay == InitReplay /\ [][NextReplay]_vars

-----------------------------------------------------------------------------
(* Properties of the replay (SpecReplay).                                  *)

Replayed == pc \in {"replayed", "again"}

\* Whether the engine finds the rule's condition to match the i-th input event.
Matched(i) == evaluateCondition(batch[i], rule.condition)

\* applyAction(event, action) on a lone event: null, or the event returned.
Applied(e, action) ==
    LET r == applyAction(<<e>>, 1, action)
    IN IF r.ref = 0 THEN [null |-> TRUE, event |-> e]
       ELSE [null |-> FALSE, event |-> r.heap[r.ref]]

\* The input positions that have an event in the output.
KeptPositions ==
    { i \in DOMAIN batch : ~Matched(i) \/ ~Applied(batch[i], rule.action).null }

\* Where the event of input position i stands in the output.
OutputPosition(i) == Cardinality({ k \in KeptPositions : k <= i })

\* C7: replayHistory returns, in input order, every event the condition does
\* not match as it is (the same object), and for every matching event the
\* result of applyAction, or nothing when that is null; when nothing matches,
\* the output is the input, event for event.
C7_ReplayShape ==
    pc = "replayed" =>
        /\ Len(replayed) = Cardinality(KeptPositions)
        /\ \A i \in KeptPositions :
              IF Matched(i)
              THEN heap[replayed[OutputPosition(i)]] = Applied(batch[i], rule.action).event
              ELSE /\ replayed[OutputPosition(i)] = events[i]
                   /\ heap[events[i]] = batch[i]
        /\ (\A i \in DOMAIN batch : ~Matched(i)) =>
              (replayed = events /\ Deref(heap, replayed) = batch)

\* A batch in which an event was passed through, a later one rewritten and
\* another dropped or rewritten.
C7_Witness ==
    /\ pc = "replayed"
    /\ Len(batch) = 3
    /\ ~Matched(1)
    /\ Matched(2)
    /\ ~Matched(3)
    /\ Len(replayed) = 3
    /\ heap[replayed[2]] # batch[2]

\* C8: replayHistory is pure and deterministic: a call leaves the input array
\* and every field of every input event as they were (a rewritten event is a
\* new object), and a second call with the same arguments returns a batch
\* equal to the first.
C8_ReplayPure ==
    /\ Replayed =>
          /\ Deref(heap, events) = batch
          /\ \A j \in DOMAIN replayed :
                heap[replayed[j]] \notin { batch[i] : i \in DOMAIN batch } =>
                    replayed[j] \notin { events[i] : i \in DOMAIN events }
    /\ pc = "again" => Deref(heap, replayed) = previous

\* The second of two calls has returned, and the rule rewrote an event.
C8_Witness ==
    /\ pc = "again"
    /\ \E j \in DOMAIN replayed : replayed[j] \notin { events[i] : i \in DOMAIN events }
    /\ \E j \in DOMAIN replayed : replayed[j] \in { events[i] : i \in DOMAIN events }

\* What the comparison of the DSL means, operator by operator.
Comparison(eventValue, op, val) ==
    CASE op = ">" -> JsGT(eventValue, val)
      [] op = "<" -> JsLT(eventValue, val)
      [] op = "==" -> LooseEq(eventValue, val)
      [] op = ">=" -> JsGE(eventValue, val)
      [] op = "<=" -> JsLE(eventValue, val)
      [] op = "!=" -> ~LooseEq(eventValue, val)
      [] op = "in" -> Includes(JsString(val), JsString(eventValue))
      [] OTHER -> FALSE

\* C9: the engine's evaluateCondition gives the comparison's result for each
\* of >, <, ==, >=, <=, != (a condition with '!=' matches exactly the events
\* whose field differs from the value), a substring test for 'in', and false
\* for any other operator.
C9_OperatorsCorrect ==
    Replayed =>
        \A i \in DOMAIN batch :
            evaluateCondition(batch[i], rule.condition) =
                Comparison(EventGet(batch[i], rule.condition.field),
                           rule.condition.op, rule.condition.value)

\* C10: replaying 'cap retries at 1' over events with cost_usd >= 0 and
\* retries in 0..3 gives a batch of the same length whose mean cost is at most
\* the mean cost of the input.
C10_CapLowersMean ==
    (Replayed /\ rule = cap_retries_1) =>
        /\ Len(replayed) = Len(events)
        /\ RLeq(MeanCost(Deref(heap, replayed)), MeanCost(batch))

\* A batch mixing capped and untouched events, with a strictly lower mean.
C10_Witness ==
    /\ pc = "replayed"
    /\ rule = cap_retries_1
    /\ \E i \in DOMAIN batch : batch[i].retries.n = 3
    /\ \E i \in DOMAIN batch : batch[i].retries.n = 2
    /\ \E i \in DOMAIN batch : batch[i].retries.n <= 1
    /\ RLess(MeanCost(Deref(heap, replayed)), MeanCost(batch))

-----------------------------------------------------------------------------
(* COLD PATH: services/decisionCompiler.ts                                 *)

\* The keys of a decomposition in the order decomposeVariance sets them.
insertionOrder == <<"model", "prompt_class", "retries", "noise">>

\* Object.entries(varianceMap)
entries(varianceMap) ==
    Bind(SelectSeq(insertionOrder, LAMBDA key : key \in DOMAIN varianceMap), LAMBDA keys :
        [i \in 1..Len(keys) |-> <<keys[i], varianceMap[keys[i]]>>])

\* varianceMap['noise'] || 0
noiseFraction(varianceMap) ==
    IF "noise" \in DOMAIN varianceMap THEN varianceMap["noise"] ELSE Zero

\* The test of the loop with >= for >.
exceeds_orEqual(val, maxContribution, key) == RLeq(maxContribution, val) /\ key # "noise"

\* val > maxContribution && key !== 'noise'
exceeds(val, maxContribution, key) == RLess(maxContribution, val) /\ key # "noise"

\* The loop that finds the highest variance driver, from entry i on.
RECURSIVE selectDriver(_, _, _, _)
selectDriver(es, i, driver, maxContribution) ==
    IF i > Len(es) THEN driver
    ELSE IF exceeds(es[i][2], maxContribution, es[i][1])
    THEN selectDriver(es, i + 1, es[i][1], es[i][2])
    ELSE selectDriver(es, i + 1, driver, maxContribution)

\* AVAILABLE_RULES.find(r => r.id === id)
findRule(id) ==
    LET hits == SelectSeq(AVAILABLE_RULES, LAMBDA r : r.id = id)
    IN IF hits = <<>> THEN [found |-> FALSE, rule |-> cap_retries_1]
       ELSE [found |-> TRUE, rule |-> Head(hits)]

\* The rule the compiler selects for a driver.
selectedRuleFor(driver) ==
    IF driver = "retries" THEN findRule("cap_retries_1")
    ELSE IF driver = "prompt_class" THEN findRule("downgrade_reporting")
    ELSE [found |-> FALSE, rule |-> cap_retries_1]

\* The alternative rules, after .filter(Boolean).
alternativeRulesFor(driver) ==
    LET alt == IF driver = "retries" THEN <<findRule("retry_only_timeout")>>
               ELSE IF driver = "prompt_class" THEN <<findRule("downgrade_reporting_gpt35")>>
               ELSE <<>>
        kept == SelectSeq(alt, LAMBDA f : f.found)
    IN [i \in 1..Len(kept) |-> kept[i].rule]

\* The mock score and risk of an alternative rule.
alternativeScore(r) ==
    [action |-> r.id,
     score |-> IF r.id = "retry_only_timeout" THEN Rat(94, 100)
               ELSE IF r.id = "downgrade_reporting_gpt35" THEN Rat(85, 100)
               ELSE Zero,
     risk |-> "LOW"]

\* alternativesConsidered, sorted by score; `action` holds the id of the rule
\* whose description the entry shows.
alternativesConsidered(selectedRule, alternativeRules) ==
    LET listed == <<[action |-> selectedRule.id, score |-> Rat(92, 100), risk |-> "MEDIUM"]>>
                  \o [i \in 1..Len(alternativeRules) |-> alternativeScore(alternativeRules[i])]
    IN sortDescending(listed, Len(listed), "score")

\* finalConfidenceScore = dataCoverage * 0.3 + effectStability * 0.2 + modelFitR2 * 0.5
\* with effectStability = 1 - min(cv, 0.5): the number rat - sqrt(root) / 5.
confidenceScore(dataCoverage, cvSq, modelFitR2) ==
    [rat |-> RAdd(RAdd(RMul(dataCoverage, Rat(3, 10)), Rat(1, 5)),
                  RMul(modelFitR2, Rat(1, 2))),
     root |-> RMin(cvSq, Rat(1, 4))]

\* score < threshold
scoreBelow(score, threshold) ==
    LET d == RSub(score.rat, threshold)
    IN RLess(d, Zero) \/ RLess(RMul(RInt(25), RMul(d, d)), score.root)

\* Variant: the risk by the size of the window alone, without the escalation.
overfitRiskOf_bySize(n, modelFitR2) ==
    IF n < 100 THEN "HIGH" ELSE IF n < 300 THEN "MEDIUM" ELSE "LOW"

\* The overfit risk assessment.
overfitRiskOf(n, modelFitR2) ==
    LET bySize == IF n < 100 THEN "HIGH" ELSE IF n < 300 THEN "MEDIUM" ELSE "LOW"
    IN IF RLess(Rat(98, 100), modelFitR2) /\ bySize # "HIGH" THEN "MEDIUM" ELSE bySize

\* The events the blast radius is computed on.
problematicEventsOf(evs, driver) ==
    IF driver = "retries" THEN SelectSeq(evs, LAMBDA e : e.retries.n > 1)
    ELSE IF driver = "prompt_class"
    THEN SelectSeq(evs, LAMBDA e : e.prompt_class = Str(s_reporting))
    ELSE <<>>

Reason(text) == [reason |-> text, n |-> 0, s |-> ""]
\* `Blast radius affects ${(pct * 100).toFixed(0)}% of revenue`
BlastReason(pct) ==
    [reason |-> "Blast radius affects N% of revenue",
     n |-> toFixed(RMul(pct, RInt(100)), 0)[1], s |-> ""]
\* `Sample size risk (${overfitRisk})`
SampleReason(overfitRisk) == [reason |-> "Sample size risk", n |-> 0, s |-> overfitRisk]

\* finalConfidenceScore < 0.6
lowConfidence(score) == scoreBelow(score, Rat(6, 10))

\* blastRadius.affected_revenue_pct > 0.5
largeBlast(blastRadius) == RLess(Rat(1, 2), blastRadius.affected_revenue_pct)

\* Step 10 with the two tests in the other order.
decisionState_holdFirst(score, blastRadius, tailMass, driver, topCauses, overfitRisk) ==
    IF largeBlast(blastRadius)
    THEN [state |-> "HOLD", rationale |-> <<BlastReason(blastRadius.affected_revenue_pct)>>]
    ELSE IF lowConfidence(score)
    THEN [state |-> "INSUFFICIENT_EVIDENCE", rationale |-> <<Reason("Confidence score < 0.6")>>]
    ELSE [state |-> "CONDITIONAL", rationale |-> <<>>]

\* Step 10: the decision state and its rationale.
decisionState(score, blastRadius, tailMass, driver, topCauses, overfitRisk) ==
    IF lowConfidence(score)
    THEN [state |-> "INSUFFICIENT_EVIDENCE", rationale |-> <<Reason("Confidence score < 0.6")>>]
    ELSE IF largeBlast(blastRadius)
    THEN [state |-> "HOLD", rationale |-> <<BlastReason(blastRadius.affected_revenue_pct)>>]
    ELSE [state |-> "CONDITIONAL",
          rationale |->
              (IF RLess(Rat(5, 100), tailMass)
               THEN <<Reason("High tail-risk detected (>p99)")>> ELSE <<>>)
              \o (IF /\ driver = "retries"
                     /\ \E i \in DOMAIN topCauses : Includes(topCauses[i].cause, <<53, 48, 51>>)
                  THEN <<Reason("Retry failures include upstream_503")>> ELSE <<>>)
              \o (IF overfitRisk # "LOW" THEN <<SampleReason(overfitRisk)>> ELSE <<>>)]

NullDecision == [null |-> TRUE]

\* The floor of the window length under which no decision is compiled.
significanceFloor == 50

\* The floor, taken to exclude a window of exactly 50 events.
tooFewEvents_inclusive(evs) == Len(evs) <= significanceFloor

\* if (events.length < 50) return null
tooFewEvents(evs) == Len(evs) < significanceFloor

\* const cfEvents = replayHistory(events, selectedRule)
replayedEvents(evs, selectedRule) ==
    Bind(replayHistory(evs, [i \in 1..Len(evs) |-> i], selectedRule),
         LAMBDA cf : Deref(cf.heap, cf.result))

\* Steps 5 to 12, for the rule selected.  `issue` holds the driver its text
\* names and `recommended_action` the id of the rule whose description it
\* shows; id, timestamp, root_cause, expected_impact, inaction_cost, risk,
\* reversibility and the rounded effect_stability and final_score are left
\* out.
decisionObject(evs, baselineStats, varianceMap, driver, selectedRule) ==
    Bind3(replayedEvents(evs, selectedRule),
          analyzeRetryCauses(evs),
          analyzeBlastRadius(evs, problematicEventsOf(evs, driver)),
          LAMBDA cfEvents, retryAnalysis, blastRadius :
    Bind3(RMin(Rat(Len(evs), 200), One),
          RSub(One, noiseFraction(varianceMap)),
          getStats(statsOf(cfEvents), cfEvents),
          LAMBDA dataCoverage, modelFitR2, cfStats :
    Bind3(overfitRiskOf(Len(evs), modelFitR2),
          decisionState(confidenceScore(dataCoverage, baselineStats.cv_sq, modelFitR2),
                        blastRadius, baselineStats.tail_mass, driver, retryAnalysis,
                        overfitRiskOf(Len(evs), modelFitR2)),
          alternativesConsidered(selectedRule, alternativeRulesFor(driver)),
          LAMBDA overfitRisk, verdict, alternatives :
        [null |-> FALSE,
         issue |-> driver,
         decision_state |-> verdict.state,
         decision_state_rationale |-> verdict.rationale,
         confidence |-> [data_coverage_pct |-> toFixed(dataCoverage, 2),
                         sample_size |-> Len(evs),
                         model_fit_r2 |-> toFixed(modelFitR2, 2),
                         overfit_risk |-> overfitRisk],
         recommended_action |-> selectedRule.id,
         alternative_actions_considered |-> alternatives,
         rule_generated |-> selectedRule,
         proof |-> [variance_decomposition |-> varianceMap,
                    counterfactual_comparison |->
                        [baseline_cost |->
                             toFixed(RMul(baselineStats.mean, RInt(Len(evs))), 2),
                         simulated_cost |->
                             toFixed(RMul(cfStats.mean, RInt(Len(cfEvents))), 2)]],
         analysis_deep_dive |-> retryAnalysis,
         blast_radius |-> blastRadius])))

\* compileDecision(events): null, or the DecisionObject.  The baseline
\* statistics of step 1 are first read in step 7.
compileDecision(evs) ==
    IF tooFewEvents(evs) THEN NullDecision
    ELSE Bind(decomposeVariance(evs), LAMBDA varianceMap :
         Bind(selectDriver(entries(varianceMap), 1, "noise", Zero), LAMBDA driver :
             IF ~selectedRuleFor(driver).found THEN NullDecision
             ELSE Bind(getStats(statsOf(evs), evs), LAMBDA baselineStats :
                      decisionObject(evs, baselineStats, varianceMap, driver,
                                     selectedRuleFor(driver).rule))))

-----------------------------------------------------------------------------
(* The analysis loop over a growing window.                                *)

\* A window holds, for every class of events, a number of blocks of
\* BlockSize equal events.
BlockSize == 10
MaxBlocks == 6

EventClasses ==
    << Event("acme_corp", s_gpt_4, s_chat, 300, 700, 0, Null, RInt(6)),
       Event("acme_corp", s_gpt_4, s_reporting, 450, 1050, 0, Null, RInt(24)),
       Event("globex", s_gpt_4, s_reporting, 450, 1050, 2, Str(s_timeout), RInt(72)),
       Event("globex", s_gpt_4, s_chat, 150, 350, 3, Str(s_upstream_503), RInt(24)),
       Event("acme_corp", s_gpt_35_turbo, s_chat, 300, 700, 0, Null, RInt(3)),
       Event("acme_corp", s_gpt_4, s_chat, 10, 23, 0, Null, RInt(1)),
       Event("acme_corp", s_gpt_4, s_chat, 1410, 3290, 0, Null, RInt(141)),
       Event("globex", s_gpt_4, s_reporting, 240, 560, 2, Str(s_timeout), RInt(72)) >>

\* The classes of a mixed traffic, and those of a traffic whose costs are
\* dispersed within the groups of every dimension.
MixedTraffic == 1..5
DispersedTraffic == 6..8

EmptyWindow == [k \in DOMAIN EventClasses |-> 0]

RECURSIVE blocks(_)
blocks(w) ==
    IF w = <<>> THEN 0 ELSE Head(w) + blocks(Tail(w))

\* The events of a window, class by class.
RECURSIVE eventsOf(_, _)
eventsOf(w, k) ==
    IF k = 0 THEN <<>>
    ELSE eventsOf(w, k - 1) \o [i \in 1..(w[k] * BlockSize) |-> EventClasses[k]]

analysisWindow == eventsOf(window, Len(window))

InitCompile ==
    /\ pc = "idle"
    /\ window = EmptyWindow
    /\ analysis = NullDecision
    /\ HotIdle
    /\ ReplayIdle
    /\ StatsIdle
    /\ AppIdle

\* The traffic loop appends a block of events of the traffic the window is
\* made of; the analysis of the tick before is gone with its callback.
IngestFrom(traffic) ==
    /\ blocks(window) < MaxBlocks
    /\ \A k \in DOMAIN window : window[k] > 0 => k \in traffic
    /\ \E k \in traffic : window' = [window EXCEPT ![k] = @ + 1]
    /\ analysis' = NullDecision
    /\ pc' = "ingested"
    /\ UNCHANGED <<hotVars, replayVars, statsVars, appVars>>

Ingest == IngestFrom(MixedTraffic)

IngestDispersed == IngestFrom(DispersedTraffic)

\* A tick of the analysis loop: analysis = compileDecision(analysisWindow).
Analyze ==
    /\ pc = "ingested"
    /\ \E evs \in {analysisWindow} : analysis' = compileDecision(evs)
    /\ pc' = "compiled"
    /\ UNCHANGED <<window, hotVars, replayVars, statsVars, appVars>>

NextCompile == Ingest \/ IngestDispersed \/ Analyze

SpecCompile == InitCompile /\ [][NextCompile]_vars

-----------------------------------------------------------------------------
(* Properties of the decision compiler (SpecCompile).                      *)

Compiled == pc = "compiled"

\* The driver with the largest positive contribution among model,
\* prompt_class and retries, the first of them among equals; "noise" when no
\* contribution is positive or the decomposition is empty.
DominantDriver(varianceMap) ==
    LET keys == <<"model", "prompt_class", "retries">>
        positive == { i \in 1..3 : /\ keys[i] \in DOMAIN varianceMap
                                    /\ RLess(Zero, varianceMap[keys[i]]) }
        best == { i \in positive :
                    \A j \in positive : RLeq(varianceMap[keys[j]], varianceMap[keys[i]]) }
    IN IF best = {} THEN "noise"
       ELSE keys[CHOOSE i \in best : \A j \in best : i <= j]

CatalogRule(id) == CHOOSE r \in { AVAILABLE_RULES[i] : i \in DOMAIN AVAILABLE_RULES } : r.id = id

\* C5: compileDecision returns null exactly when the window has fewer than 50
\* events or the dominant variance driver is neither retries nor prompt_class
\* (an empty decomposition included); otherwise the rule_generated of the
\* decision is the catalog rule mapped to the driver.
C5_NullExactly ==
    Compiled =>
        \A evs \in {analysisWindow} :
        \A varianceMap \in {decomposeVariance(evs)} :
        \A driver \in {DominantDriver(varianceMap)} :
            /\ analysis.null <=> (Len(evs) < 50 \/ driver \notin {"retries", "prompt_class"})
            /\ ~analysis.null =>
                   analysis.rule_generated =
                       IF driver = "retries" THEN CatalogRule("cap_retries_1")
                       ELSE CatalogRule("downgrade_reporting")

\* C5 witness: a window of 50 events or more compiled to null because its
\* dominant driver, the model, has no catalog rule.
C5_Witness ==
    /\ Compiled
    /\ analysis.null
    /\ \E evs \in {analysisWindow} :
           /\ Len(evs) >= 50
           /\ \E varianceMap \in {decomposeVariance(evs)} :
                  DominantDriver(varianceMap) = "model"

\* Whether the confidence score of a window is below the threshold.
ConfidenceBelow(evs, threshold) ==
    \E varianceMap \in {decomposeVariance(evs)} :
    \E baselineStats \in {getStats(statsOf(evs), evs)} :
        scoreBelow(confidenceScore(RMin(Rat(Len(evs), 200), One), baselineStats.cv_sq,
                                   RSub(One, noiseFraction(varianceMap))),
                   threshold)

HasBlastReason(d) ==
    \E i \in DOMAIN d.decision_state_rationale :
        d.decision_state_rationale[i] = BlastReason(d.blast_radius.affected_revenue_pct)

\* C6: a decision is INSUFFICIENT_EVIDENCE if the confidence score of the
\* window it was compiled from is below 0.6; otherwise HOLD, with the
\* blast-radius reason in its rationale, if the blast-radius revenue share is
\* above 0.5; otherwise CONDITIONAL.  Nothing but the window decides.
C6_StateFromWindow ==
    (Compiled /\ ~analysis.null) =>
        IF ConfidenceBelow(analysisWindow, Rat(6, 10))
        THEN analysis.decision_state = "INSUFFICIENT_EVIDENCE"
        ELSE IF RLess(Rat(1, 2), analysis.blast_radius.affected_revenue_pct)
        THEN analysis.decision_state = "HOLD" /\ HasBlastReason(analysis)
        ELSE analysis.decision_state = "CONDITIONAL"

\* C6 witness: a decision put on HOLD for its blast radius, the confidence
\* score being 0.6 or more.
C6_Witness ==
    /\ Compiled
    /\ ~analysis.null
    /\ ~ConfidenceBelow(analysisWindow, Rat(6, 10))
    /\ RLess(Rat(1, 2), analysis.blast_radius.affected_revenue_pct)
    /\ analysis.decision_state = "HOLD"
    /\ HasBlastReason(analysis)

\* The dimensions of the decomposition, in the order the loop meets them.
Dimensions == <<"model", "prompt_class", "retries">>

Position(key) == CHOOSE i \in DOMAIN Dimensions : Dimensions[i] = key

\* Whether key is the dimension with the largest fraction of the mapping,
\* the first of the dimensions that have this fraction.
FirstLargest(varianceMap, key) ==
    /\ key \in DOMAIN varianceMap
    /\ \E p \in DOMAIN Dimensions : Dimensions[p] = key
    /\ RLess(Zero, varianceMap[key])
    /\ \A q \in DOMAIN Dimensions :
           /\ RLeq(varianceMap[Dimensions[q]], varianceMap[key])
           /\ varianceMap[Dimensions[q]] = varianceMap[key] => Position(key) <= q

\* C11: the driver compileDecision selects for a window of 50 events or more
\* is the dimension among model, prompt_class and retries with the largest
\* variance fraction, the first in this order among the dimensions that tie
\* for it; no driver is selected ("noise" is kept, and null returned) when
\* every fraction of the three is 0.
C11_DriverSelection ==
    (Compiled /\ Len(analysisWindow) >= 50) =>
        \A varianceMap \in {decomposeVariance(analysisWindow)} :
        \A driver \in {selectDriver(entries(varianceMap), 1, "noise", Zero)} :
            /\ driver # "noise" => FirstLargest(varianceMap, driver)
            /\ driver = "noise" <=>
                   \A q \in DOMAIN Dimensions :
                       Dimensions[q] \in DOMAIN varianceMap
                           => varianceMap[Dimensions[q]] = Zero
            /\ driver = "noise" => analysis.null
            /\ ~analysis.null => analysis.issue = driver

\* C11 witness: prompt_class and retries tie for the largest fraction, which
\* is above that of the model, and the decision compiled names prompt_class.
C11_Witness ==
    /\ Compiled
    /\ ~analysis.null
    /\ analysis.issue = "prompt_class"
    /\ \E varianceMap \in {analysis.proof.variance_decomposition} :
           /\ varianceMap["prompt_class"] = varianceMap["retries"]
           /\ RLess(varianceMap["model"], varianceMap["prompt_class"])

\* C11, the case of no driver: a window of 50 events or more whose three
\* fractions are 0 while its costs vary, compiled to null.
C11_NoDriver ==
    /\ Compiled
    /\ Len(analysisWindow) >= 50
    /\ analysis.null
    /\ \E varianceMap \in {decomposeVariance(analysisWindow)} :
           /\ DOMAIN varianceMap # {}
           /\ \A q \in DOMAIN Dimensions : varianceMap[Dimensions[q]] = Zero

\* The fractions of the three dimensions before toFixed(4): Math.min(
\* varianceExplained / totalVariance, 1.0), and no key where decomposeVariance
\* returns {}.
unroundedFractions(evs) ==
    IF Len(evs) < 5 THEN EmptyDecomposition
    ELSE \* globalStats, totalVariance as in decomposeVariance
         Bind(statsOf(evs), LAMBDA globalStats :
         Bind(getVariance(globalStats), LAMBDA totalVariance :
             IF totalVariance = Zero THEN EmptyDecomposition
             ELSE [model |-> varianceShare(evs, "model", globalStats.mean, totalVariance),
                   prompt_class |->
                       varianceShare(evs, "prompt_class", globalStats.mean, totalVariance),
                   retries |->
                       varianceShare(evs, "retries", globalStats.mean, totalVariance)]))

\* C12: the driver compileDecision ends with for a window of 50 events or
\* more is the one the unrounded fractions give (the largest of them, the
\* first among equals, none when all are 0): two dimensions whose unrounded
\* fractions differ are not treated as tied.
C12_UnroundedSelection ==
    (Compiled /\ Len(analysisWindow) >= 50) =>
        \A exact \in {unroundedFractions(analysisWindow)} :
        \A varianceMap \in {decomposeVariance(analysisWindow)} :
        \A driver \in {selectDriver(entries(varianceMap), 1, "noise", Zero)} :
            /\ driver # "noise" => FirstLargest(exact, driver)
            /\ driver = "noise" =>
                   \A q \in DOMAIN Dimensions :
                       Dimensions[q] \in DOMAIN exact => exact[Dimensions[q]] = Zero

-----------------------------------------------------------------------------
(* The statistics engine on small samples.                                 *)

MaxSample == 6

SamplePool ==
    { Event("acme_corp", s_gpt_4, s_chat, 300, 700, 0, Null, Zero),
      Event("acme_corp", s_gpt_4, s_chat, 300, 700, 0, Null, RInt(6)),
      Event("globex", s_gpt_4, s_reporting, 450, 1050, 2, Str(s_timeout), RInt(24)),
      Event("acme_corp", s_gpt_35_turbo, s_chat, 300, 700, 0, Null, RInt(3)) }

Samples == UNION { [1..n -> SamplePool] : n \in 0..MaxSample }

InitStats ==
    /\ pc = "input"
    /\ sample \in Samples
    /\ report = [of |-> "nothing"]
    /\ HotIdle
    /\ ReplayIdle
    /\ CompileIdle
    /\ AppIdle

\* new StreamingStats(), an update by the cost of every event of the sample,
\* then getStats(events) with the sample (App, compileDecision) or with []
\* (decomposeVariance).
Measure ==
    /\ pc = "input"
    /\ \E evs \in {sample, <<>>} :
           report' = [of |-> "getStats", updates |-> Len(sample), events |-> evs,
                      stats |-> getStats(statsOf(sample), evs)]
    /\ pc' = "measured"
    /\ UNCHANGED <<sample, hotVars, replayVars, compileVars, appVars>>

\* decomposeVariance(sample)
Decompose ==
    /\ pc = "input"
    /\ report' = [of |-> "decomposeVariance", result |-> decomposeVariance(sample)]
    /\ pc' = "decomposed"
    /\ UNCHANGED <<sample, hotVars, replayVars, compileVars, appVars>>

NextStats == Measure \/ Decompose

SpecStats == InitStats /\ [][NextStats]_vars

-----------------------------------------------------------------------------
(* Properties of the statistics engine (SpecStats).                        *)

Decomposed == pc = "decomposed"

Measured == pc = "measured"

\* Whether the costs of the events are all the same.
EqualCosts(evs) == \A i, j \in DOMAIN evs : evs[i].cost_usd = evs[j].cost_usd

\* C13: decomposeVariance returns the empty mapping when the sample has fewer
\* than 5 events or its costs have variance 0 (they are all equal), and only
\* then; every other mapping has exactly the keys model, prompt_class,
\* retries and noise.
C13_EmptyOrAllKeys ==
    Decomposed =>
        /\ DOMAIN report.result = {} <=> (Len(sample) < 5 \/ EqualCosts(sample))
        /\ DOMAIN report.result # {}
               => DOMAIN report.result = {"model", "prompt_class", "retries", "noise"}

\* C13 witness: a sample of exactly 5 events of different costs, decomposed
\* into a mapping with the four keys.
C13_Witness ==
    /\ Decomposed
    /\ Len(sample) = 5
    /\ ~EqualCosts(sample)
    /\ DOMAIN report.result = {"model", "prompt_class", "retries", "noise"}

\* C13, the other case: 5 events or more of one cost, decomposed into {}.
C13_ZeroVariance ==
    /\ Decomposed
    /\ Len(sample) >= 5
    /\ EqualCosts(sample)
    /\ DOMAIN report.result = {}

\* C14: in every mapping decomposeVariance returns, each value lies in
\* [0, 1], noise is max(0, 1 - the sum of the three fractions), and the
\* three fractions and noise sum to at most 1.
C14_FractionsBounded ==
    (Decomposed /\ DOMAIN report.result # {}) =>
        \E result \in {report.result} :
        \E explained \in {RAdd(RAdd(result["model"], result["prompt_class"]),
                               result["retries"])} :
            /\ \A key \in DOMAIN result :
                   RLeq(Zero, result[key]) /\ RLeq(result[key], One)
            /\ result["noise"] = RMax(Zero, RSub(One, explained))
            /\ RLeq(RAdd(explained, result["noise"]), One)

\* The sum of the three dimension fractions of a mapping that has its keys.
explainedSum(result) ==
    RAdd(RAdd(result["model"], result["prompt_class"]), result["retries"])

\* C14, as the code has it: each value lies in [0, 1], noise is
\* max(0, 1 - the sum of the three fractions), and the three fractions and
\* noise sum to exactly 1 when the three fractions sum to at most 1, and to
\* more than 1, at most 3, otherwise.
C14_EachBounded ==
    (Decomposed /\ DOMAIN report.result # {}) =>
        \E result \in {report.result} :
        \E explained \in {explainedSum(report.result)} :
            /\ \A key \in DOMAIN result :
                   RLeq(Zero, result[key]) /\ RLeq(result[key], One)
            /\ result["noise"] = RMax(Zero, RSub(One, explained))
            /\ IF RLeq(explained, One)
               THEN RAdd(explained, result["noise"]) = One
               ELSE /\ RLess(One, RAdd(explained, result["noise"]))
                    /\ RLeq(RAdd(explained, result["noise"]), RInt(3))

\* C14 witness: a decomposition whose three fractions sum to more than 1.
C14_Witness ==
    /\ Decomposed
    /\ DOMAIN report.result # {}
    /\ RLess(One, explainedSum(report.result))

\* C15: after fewer than 2 updates the variance and the standard deviation
\* getStats reports are 0; after no update min and max are 0, not an
\* infinity; cv and instability_index are 0 whenever the mean is 0.
C15_DegenerateStats ==
    Measured =>
        /\ report.updates < 2 =>
               /\ report.stats.variance = Zero
               /\ report.stats.std_dev_sq = Zero
               /\ getVariance(statsOf(sample)) = Zero
        /\ report.updates = 0 =>
               /\ report.stats.min = Bounded(Zero)
               /\ report.stats.max = Bounded(Zero)
        /\ report.stats.mean = Zero =>
               /\ report.stats.cv_sq = Zero
               /\ report.stats.instability_index_sq = Zero

\* C15 witness: the statistics of an engine that got no update.
C15_Witness ==
    /\ Measured
    /\ report.updates = 0
    /\ report.stats.variance = Zero
    /\ report.stats.min = Bounded(Zero)
    /\ report.stats.max = Bounded(Zero)
    /\ report.stats.cv_sq = Zero

\* C15, the other cases: one update, and updates of mean 0.
C15_OneUpdate ==
    /\ Measured
    /\ report.updates = 1
    /\ report.stats.mean # Zero
    /\ report.stats.variance = Zero

C15_ZeroMean ==
    /\ Measured
    /\ report.updates >= 2
    /\ report.stats.mean = Zero
    /\ report.stats.cv_sq = Zero


-----------------------------------------------------------------------------
(* APPLICATION: App (src/unnamed/part_001) and services/rulesService.ts.   *)
(* JavaScript runs every callback to completion on one thread: a step of   *)
(* the model is one callback, the part of an async handler between two     *)
(* awaits, or the persistence collaborator settling a request.             *)

\* The handler invocations and the DecisionObjects of a run.
MaxCalls == 2
MaxDecisions == 2

\* docRef.id of the documents addDoc creates, in order.
DocIds == <<"doc1", "doc2", "doc3", "doc4", "doc5">>

\* A rule found in the collection at sign-in.
PersistedRule == ActiveRule("r1", retry_only_timeout, "active")

\* What the traffic loop leaves in eventsRef: fewer than 50 events, and
\* windows compiled to CONDITIONAL and INSUFFICIENT_EVIDENCE.
AppWindows ==
    { <<1, 0, 0, 0, 0, 0, 0, 0>>, <<4, 0, 0, 1, 0, 0, 0, 0>>,
      <<0, 0, 0, 0, 0, 3, 2, 1>> }

\* const analysis = compileDecision(analysisWindow), per window.
Analyses == [w \in AppWindows |-> compileDecision(eventsOf(w, Len(w)))]

\* The requests generateRawRequest hands to the hot path.
AppContexts == { Context(Num(3), Str(s_timeout), Str(s_chat)) }

\* The text typed into the override box.
Reasons == {"too risky"}

\* An invocation of an async handler, suspended at the await `at` on a
\* request that is sent, fulfilled or rejected; `logged` records that its
\* feedback document reached the collection.
Call(fn, at, decision, ruleId, reason) ==
    [fn |-> fn, at |-> at, io |-> "sent", decision |-> decision,
     ruleId |-> ruleId, reason |-> reason, value |-> <<>>, logged |-> FALSE]

\* An invocation that has returned.
Settled ==
    [fn |-> "", at |-> "returned", io |-> "none", decision |-> 0,
     ruleId |-> "", reason |-> "", value |-> <<>>, logged |-> FALSE]

\* No callback is running.
ThreadIdle == timer.running = 0

Array(ref) == objects.arrays[ref]
DecisionOf(ref) == objects.decisions[ref]

\* The list edited where it is: the array the state refers to gets the items.
setActiveRules_inPlace(items) == [objects EXCEPT !.arrays[Len(objects.arrays)] = items]

\* setActiveRules(items): the array handed over is a new one ([...prev,
\* newRule], prev.filter(...), the array fetchActiveRules built), and the
\* state refers to it; the arrays there were stay as they are.
setActiveRules(items) == [objects EXCEPT !.arrays = Append(@, items)]

\* Garbage collection: an array that neither the state nor the last render
\* refers to, and a DecisionObject that neither they nor a suspended handler
\* refers to, is gone; its reference is not used again.
Collected(objs, st, shown, cs) ==
    [arrays |-> [ref \in DOMAIN objs.arrays |->
                    IF ref \in {st.activeRules, shown.activeRules}
                    THEN objs.arrays[ref] ELSE <<>>],
     decisions |-> [ref \in DOMAIN objs.decisions |->
                    IF ref \in {st.latestDecision, shown.latestDecision}
                                \cup { cs[k].decision : k \in DOMAIN cs }
                    THEN objs.decisions[ref]
                    ELSE [id |-> ref, object |-> NullDecision]]]

\* The panel with the Deploy and Override buttons (part_001:454, 504).
Actionable(shown) ==
    /\ shown.user
    /\ shown.latestDecision # 0
    /\ DecisionOf(shown.latestDecision).object.decision_state = "CONDITIONAL"

InitApp ==
    /\ pc = "mounted"
    /\ state = Mounted
    /\ view = Mounted
    /\ objects = [arrays |-> << <<>> >>, decisions |-> <<>>]
    /\ db \in { [rules |-> <<>>, feedback |-> <<>>, docs |-> 0],
                [rules |-> <<PersistedRule>>, feedback |-> <<>>, docs |-> 0] }
    /\ calls = <<>>
    /\ console = ""
    /\ timer = [running |-> 0, pending |-> 0]
    /\ window = EmptyWindow
    /\ analysis = NullDecision
    /\ HotIdle
    /\ ReplayIdle
    /\ StatsIdle

\* React renders the state and re-runs the effects whose dependencies
\* changed; clearInterval takes a queued callback of the old interval along.
Render ==
    /\ ThreadIdle
    /\ view # state
    /\ view' = state
    /\ objects' = Collected(objects, state, state, calls)
    /\ timer' = IF view.mode # state.mode \/ view.showOverrideInput # state.showOverrideInput
                THEN [timer EXCEPT !.pending = 0] ELSE timer
    /\ pc' = "mounted"
    /\ UNCHANGED <<state, db, calls, console, hotVars, replayVars,
                   compileVars, statsVars>>

\* onAuthStateChanged with a user: setUser(u); loadRules(u.uid).
onAuthStateChanged ==
    /\ ThreadIdle
    /\ ~state.user
    /\ Len(calls) < MaxCalls
    /\ state' = [state EXCEPT !.user = TRUE]
    /\ calls' = Append(calls, Call("loadRules", "fetchActiveRules", 0, "", ""))
    /\ pc' = "mounted"
    /\ UNCHANGED <<view, objects, db, console, timer, hotVars, replayVars,
                   compileVars, statsVars>>

\* handleSignOut, with the listener's setUser(null) that signOut causes.
handleSignOut ==
    /\ ThreadIdle
    /\ view.user
    /\ state' = [state EXCEPT !.mode = "IDLE", !.user = FALSE]
    /\ pc' = "mounted"
    /\ UNCHANGED <<view, objects, db, calls, console, timer, hotVars, replayVars,
                   compileVars, statsVars>>

\* onClick={() => setMode(SimulationMode.RUNNING)}
startSimulation ==
    /\ ThreadIdle
    /\ view.user
    /\ view.mode = "IDLE"
    /\ state' = [state EXCEPT !.mode = "RUNNING"]
    /\ pc' = "mounted"
    /\ UNCHANGED <<view, objects, db, calls, console, timer, hotVars, replayVars,
                   compileVars, statsVars>>

reset ==
    /\ ThreadIdle
    /\ view.user
    /\ state' = [state EXCEPT !.mode = "IDLE", !.latestDecision = 0,
                              !.showOverrideInput = FALSE, !.overriding = 0]
    /\ objects' = Collected(objects, state', view, calls)
    /\ window' = EmptyWindow
    /\ pc' = "mounted"
    /\ UNCHANGED <<view, db, calls, console, timer, analysis, hotVars,
                   replayVars, statsVars>>

\* A tick of the traffic loop: a request through evaluateRequest with the
\* activeRules of the render that created the interval, and the events
\* appended to eventsRef.
TrafficTick ==
    /\ ThreadIdle
    /\ view.mode = "RUNNING"
    /\ \E ctx \in AppContexts, down \in {FALSE} :
           /\ context' = ctx
           /\ outage' = down
           /\ activeRules' = Array(view.activeRules)
           /\ response' = evaluateRequest(ctx, Array(view.activeRules), down)
    /\ \E w \in AppWindows : window' = w
    /\ pc' = "mounted"
    /\ UNCHANGED <<analysis, appVars, replayVars, statsVars>>

\* The analysis interval fires on the idle thread: past the two early
\* returns, compileDecision is entered.  A callback the runtime had queued
\* is the one that runs.
CompileStart ==
    /\ ThreadIdle
    /\ view.mode = "RUNNING"
    /\ ~view.showOverrideInput
    /\ blocks(window) * BlockSize >= significanceFloor
    /\ Len(objects.decisions) < MaxDecisions
    /\ timer' = [running |-> timer.running + 1, pending |-> 0]
    /\ pc' = "mounted"
    /\ UNCHANGED <<state, view, objects, db, calls, console, hotVars, replayVars,
                   compileVars, statsVars>>

\* The interval elapses while compileDecision runs: nothing in App drops
\* the tick, and the runtime may keep one callback queued for the moment
\* the thread is idle.
TimerElapses ==
    /\ timer.running > 0
    /\ timer.pending = 0
    /\ timer' = [timer EXCEPT !.pending = @ + 1]
    /\ pc' = "mounted"
    /\ UNCHANGED <<state, view, objects, db, calls, console, hotVars, replayVars,
                   compileVars, statsVars>>

\* compileDecision returns: if (analysis && analysis.decision_state !==
\* 'INSUFFICIENT_EVIDENCE') setLatestDecision(analysis).
CompileEnd ==
    /\ timer.running > 0
    /\ IF ~Analyses[window].null /\ Analyses[window].decision_state # "INSUFFICIENT_EVIDENCE"
       THEN /\ state' = [state EXCEPT !.latestDecision = Len(objects.decisions) + 1]
            /\ objects' = Collected(
                   [objects EXCEPT !.decisions =
                       Append(@, [id |-> Len(@) + 1, object |-> Analyses[window]])],
                   state', view, calls)
       ELSE UNCHANGED <<objects, state>>
    /\ timer' = [timer EXCEPT !.running = @ - 1]
    /\ pc' = "mounted"
    /\ UNCHANGED <<view, db, calls, console, compileVars, hotVars, replayVars,
                   statsVars>>

handleDeployRule ==
    /\ ThreadIdle
    /\ Actionable(view)
    /\ ~view.showOverrideInput
    /\ Len(calls) < MaxCalls
    /\ calls' = Append(calls, Call("handleDeployRule", "deployRule",
                                   view.latestDecision, "", ""))
    /\ pc' = "mounted"
    /\ UNCHANGED <<state, view, objects, db, console, timer, hotVars, replayVars,
                   compileVars, statsVars>>

handleOverrideClick ==
    /\ ThreadIdle
    /\ Actionable(view)
    /\ ~view.showOverrideInput
    /\ state' = [state EXCEPT !.showOverrideInput = TRUE,
                              !.overriding = view.latestDecision]
    /\ pc' = "mounted"
    /\ UNCHANGED <<view, objects, db, calls, console, timer, hotVars, replayVars,
                   compileVars, statsVars>>

\* onClick={() => { setShowOverrideInput(false); setOverrideReason("") }}
cancelOverride ==
    /\ ThreadIdle
    /\ Actionable(view)
    /\ view.showOverrideInput
    /\ state' = [state EXCEPT !.showOverrideInput = FALSE, !.overriding = 0]
    /\ pc' = "mounted"
    /\ UNCHANGED <<view, objects, db, calls, console, timer, hotVars, replayVars,
                   compileVars, statsVars>>

submitOverride ==
    /\ ThreadIdle
    /\ Actionable(view)
    /\ view.showOverrideInput
    /\ Len(calls) < MaxCalls
    /\ \E reason \in Reasons :
           calls' = Append(calls, Call("submitOverride", "logDecisionFeedback",
                                       view.latestDecision, "", reason))
    /\ pc' = "mounted"
    /\ UNCHANGED <<state, view, objects, db, console, timer, hotVars, replayVars,
                   compileVars, statsVars>>

\* The delete button of a rule of the list shown.
handleDeleteRule ==
    /\ ThreadIdle
    /\ view.user
    /\ Len(calls) < MaxCalls
    /\ \E i \in DOMAIN Array(view.activeRules) :
           calls' = Append(calls, Call("handleDeleteRule", "deleteRule", 0,
                                       Array(view.activeRules)[i].id, ""))
    /\ pc' = "mounted"
    /\ UNCHANGED <<state, view, objects, db, console, timer, hotVars, replayVars,
                   compileVars, statsVars>>

\* logDecisionFeedback's document.
FeedbackOf(call) ==
    [decision_id |-> DecisionOf(call.decision).id,
     feedback_type |-> IF call.fn = "handleDeployRule" THEN "SUCCESS" ELSE "OVERRIDE",
     override_reason |-> [null |-> call.reason = "", text |-> call.reason]]

\* deployRule's newRule with the id of the document created.
DeployedRule(call) ==
    ActiveRule(DocIds[db.docs + 1], DecisionOf(call.decision).object.rule_generated,
               "active")

\* The collaborator carries out the request of call i.
Fulfil(i) ==
    /\ calls[i].io = "sent"
    /\ CASE calls[i].at = "fetchActiveRules" ->
                /\ calls' = [calls EXCEPT ![i].io = "fulfilled", ![i].value = db.rules]
                /\ UNCHANGED db
         [] calls[i].at = "deployRule" ->
                /\ calls' = [calls EXCEPT ![i].io = "fulfilled",
                                          ![i].value = <<DeployedRule(calls[i])>>]
                /\ db' = [db EXCEPT !.rules = Append(@, DeployedRule(calls[i])),
                                    !.docs = @ + 1]
         [] calls[i].at = "deleteRule" ->
                /\ calls' = [calls EXCEPT ![i].io = "fulfilled"]
                /\ db' = [db EXCEPT !.rules =
                            SelectSeq(@, LAMBDA r : r.id # calls[i].ruleId)]
         [] calls[i].at = "logDecisionFeedback" ->
                /\ calls' = [calls EXCEPT ![i].io = "fulfilled", ![i].logged = TRUE]
                /\ db' = [db EXCEPT !.feedback = Append(@, FeedbackOf(calls[i]))]
    /\ pc' = "mounted"
    /\ UNCHANGED <<state, view, objects, console, timer, hotVars, replayVars,
                   compileVars, statsVars>>

\* The request of call i fails: its promise rejects, nothing is written.
Reject(i) ==
    /\ calls[i].io = "sent"
    /\ calls' = [calls EXCEPT ![i].io = "rejected"]
    /\ pc' = "mounted"
    /\ UNCHANGED <<state, view, objects, db, console, timer, hotVars, replayVars,
                   compileVars, statsVars>>

\* A catch block that also dismisses the decision.
catchDeploy_dismiss(shown) == [shown EXCEPT !.latestDecision = 0]

\* catch (e) { console.error("Deploy failed", e) }: the state is left alone.
catchDeploy(shown) == shown

\* setLatestDecision(null); setShowOverrideInput(false)
Dismissed(shown) ==
    [shown EXCEPT !.latestDecision = 0, !.showOverrideInput = FALSE, !.overriding = 0]

\* An updater that adds the rule twice.
appended_twice(prev, newRule) == Append(Append(prev, newRule), newRule)

\* setActiveRules(prev => [...prev, newRule])
appended(prev, newRule) == Append(prev, newRule)

\* setActiveRules(prev => prev.filter(r => r.id !== ruleId))
filtered(prev, ruleId) == SelectSeq(prev, LAMBDA r : r.id # ruleId)

\* The continuation of call i after its await has settled.
Resume(i) ==
    /\ ThreadIdle
    /\ calls[i].io \in {"fulfilled", "rejected"}
    /\ CASE calls[i].at = "fetchActiveRules" /\ calls[i].io = "fulfilled" ->
                /\ \E objs \in {setActiveRules(calls[i].value)} :
                       /\ state' = [state EXCEPT !.activeRules = Len(objs.arrays)]
                       /\ calls' = [calls EXCEPT ![i] = Settled]
                       /\ objects' = Collected(objs, state', view, calls')
                /\ UNCHANGED console
         [] calls[i].at = "fetchActiveRules" /\ calls[i].io = "rejected" ->
                /\ console' = "Failed to load rules"
                /\ calls' = [calls EXCEPT ![i] = Settled]
                /\ UNCHANGED <<objects, state>>
         [] calls[i].at = "deployRule" /\ calls[i].io = "fulfilled" ->
                /\ \E objs \in {setActiveRules(appended(Array(state.activeRules),
                                                        calls[i].value[1]))} :
                       /\ state' = [state EXCEPT !.activeRules = Len(objs.arrays)]
                       /\ calls' = [calls EXCEPT ![i].at = "logDecisionFeedback",
                                                 ![i].io = "sent", ![i].value = <<>>]
                       /\ objects' = Collected(objs, state', view, calls')
                /\ UNCHANGED console
         [] calls[i].at = "deployRule" /\ calls[i].io = "rejected" ->
                /\ console' = "Deploy failed"
                /\ state' = catchDeploy(state)
                /\ calls' = [calls EXCEPT ![i] = Settled]
                /\ objects' = Collected(objects, state', view, calls')
         [] calls[i].at = "deleteRule" /\ calls[i].io = "fulfilled" ->
                /\ \E objs \in {setActiveRules(filtered(Array(state.activeRules),
                                                        calls[i].ruleId))} :
                       /\ state' = [state EXCEPT !.activeRules = Len(objs.arrays)]
                       /\ calls' = [calls EXCEPT ![i] = Settled]
                       /\ objects' = Collected(objs, state', view, calls')
                /\ UNCHANGED console
         [] calls[i].at = "deleteRule" /\ calls[i].io = "rejected" ->
                /\ console' = "Delete failed"
                /\ calls' = [calls EXCEPT ![i] = Settled]
                /\ UNCHANGED <<objects, state>>
         [] calls[i].at = "logDecisionFeedback" ->
                \* logDecisionFeedback catches its own failure and returns
                /\ console' = IF calls[i].io = "rejected"
                              THEN "Failed to log feedback"
                              ELSE console
                /\ state' = Dismissed(state)
                /\ calls' = [calls EXCEPT ![i] = Settled]
                /\ objects' = Collected(objects, state', view, calls')
    /\ pc' = "mounted"
    /\ UNCHANGED <<view, db, timer, hotVars, replayVars, compileVars, statsVars>>

NextApp ==
    \/ Render
    \/ onAuthStateChanged
    \/ handleSignOut
    \/ startSimulation
    \/ reset
    \/ TrafficTick
    \/ CompileStart
    \/ TimerElapses
    \/ CompileEnd
    \/ handleDeployRule
    \/ handleOverrideClick
    \/ cancelOverride
    \/ submitOverride
    \/ handleDeleteRule
    \/ \E i \in DOMAIN calls : Fulfil(i)
    \/ \E i \in DOMAIN calls : Reject(i)
    \/ \E i \in DOMAIN calls : Resume(i)

SpecApp == InitApp /\ [][NextApp]_vars

-----------------------------------------------------------------------------
(* Properties of the application (SpecApp).                                *)

\* The human actions on a decision or a rule.
HumanActions == {"handleDeployRule", "submitOverride", "handleDeleteRule"}

\* The list the state refers to.
CurrentRules == Array(state.activeRules)

\* The ids of the rules deployed since the App was mounted.
Deployed == { DocIds[k] : k \in 1..db.docs }

\* C16: at most one compileDecision is in flight, and a tick that falls due
\* while it runs is dropped: no compile request is ever pending.
C16_DropNotQueue ==
    /\ timer.running <= 1
    /\ timer.pending = 0

\* C17: an approval or a revocation hands the state a new array and leaves
\* every array still referred to as it is, and an evaluation of the hot path
\* reads one of these arrays whole: the list of the render its interval was
\* created in.
C17_SwapWholeList ==
    [][/\ \A ref \in {state.activeRules, view.activeRules}
                         \cap {state'.activeRules, view'.activeRules} :
              objects'.arrays[ref] = objects.arrays[ref]
       /\ state'.activeRules # state.activeRules =>
              state'.activeRules \notin DOMAIN objects.arrays
       /\ objects'.arrays[state'.activeRules] # CurrentRules =>
              state'.activeRules # state.activeRules
       /\ TrafficTick =>
              \E ref \in {view.activeRules, state.activeRules} :
                  activeRules' = objects'.arrays[ref]]_vars

\* C17 witness: an approval has replaced the list, and the evaluation after
\* it has read the new list with the rule approved.
C17_Witness ==
    /\ activeRules = CurrentRules
    /\ \E k \in DOMAIN CurrentRules : CurrentRules[k].id \in Deployed
    /\ view.activeRules = state.activeRules

\* C17 witness: an evaluation that has read the list of before a revocation,
\* whole, while the state already holds the list of after it.
C17_StaleList ==
    /\ state.activeRules # view.activeRules
    /\ activeRules = Array(view.activeRules)
    /\ \E k \in DOMAIN activeRules :
           CurrentRules = filtered(activeRules, activeRules[k].id)

\* The step in which the human action of call i has gone through: the
\* handler returns and did not end in its catch block.
Completes(i) ==
    /\ calls[i].fn \in HumanActions
    /\ calls'[i] = Settled
    /\ ~(calls[i].at \in {"deployRule", "deleteRule"} /\ calls[i].io = "rejected")

\* C18: every human action that goes through (a rule deployed, an override
\* submitted, a rule revoked) has written its feedback document:
\* decision_id, feedback_type SUCCESS or OVERRIDE, reason.
C18_FeedbackWritten ==
    [][\A i \in DOMAIN calls :
          Completes(i) =>
              /\ calls[i].logged
              /\ \E k \in DOMAIN db.feedback : db.feedback[k] = FeedbackOf(calls[i])]_vars

\* C19: the step in which handleDeployRule (handleDeleteRule) learns that the
\* persistence write failed reports it ("Deploy failed", "Delete failed")
\* and leaves latestDecision, the active-rules list and the collections as
\* they are; so does the failing write itself.
C19_FailedWriteKeepsState ==
    [][\A i \in DOMAIN calls :
          /\ (/\ calls[i].at \in {"deployRule", "deleteRule"}
              /\ calls[i].io = "rejected"
              /\ calls'[i] # calls[i]) =>
                 /\ calls'[i] = Settled
                 /\ console' = (IF calls[i].at = "deployRule" THEN "Deploy failed"
                                ELSE "Delete failed")
                 /\ state'.latestDecision = state.latestDecision
                 /\ state'.activeRules = state.activeRules
                 /\ objects'.arrays = objects.arrays
                 /\ db' = db
          /\ (/\ calls[i].at \in {"deployRule", "deleteRule"}
              /\ calls[i].io = "sent"
              /\ calls'[i].io = "rejected") =>
                 /\ state' = state
                 /\ objects' = objects
                 /\ db' = db]_vars

\* C19 witness: a deploy has failed and was reported, with the decision still
\* there and no rule deployed.
C19_Witness ==
    /\ console = "Deploy failed"
    /\ state.latestDecision # 0
    /\ db.docs = 0

\* C19 witness: a delete has failed and was reported, with the rule still in
\* the list and in the collection.
C19_DeleteFailed ==
    /\ console = "Delete failed"
    /\ CurrentRules = <<PersistedRule>>
    /\ db.rules = <<PersistedRule>>

\* The step is the continuation of call i that approves: the list gets, at
\* its end, the rule of the decision that was displayed at the click.
Approves(i) ==
    /\ calls[i].fn = "handleDeployRule"
    /\ calls[i].at = "deployRule"
    /\ calls[i].io = "fulfilled"
    /\ calls'[i].at = "logDecisionFeedback"
    /\ \E newRule \in {objects'.arrays[state'.activeRules][Len(CurrentRules) + 1]} :
           /\ objects'.arrays[state'.activeRules] = Append(CurrentRules, newRule)
           /\ newRule.rule_id = DecisionOf(calls[i].decision).object.rule_generated.id
           /\ newRule.deploy_state = "active"

\* The step is the continuation of call i that revokes: the rule of the id
\* clicked leaves the list.
Revokes(i) ==
    /\ calls[i].fn = "handleDeleteRule"
    /\ calls[i].at = "deleteRule"
    /\ calls[i].io = "fulfilled"
    /\ calls'[i] = Settled
    /\ objects'.arrays[state'.activeRules] =
           SelectSeq(CurrentRules, LAMBDA r : r.id # calls[i].ruleId)

\* The step is the continuation of loadRules: the list becomes what was
\* fetched from the collection.
Loads(i) ==
    /\ calls[i].fn = "loadRules"
    /\ calls[i].io = "fulfilled"
    /\ calls'[i] = Settled
    /\ objects'.arrays[state'.activeRules] = calls[i].value

\* The loops leave the list and its arrays alone, and no DecisionObject
\* still referred to changes.
LoopsReadOnly ==
    /\ (TrafficTick \/ CompileStart \/ TimerElapses \/ CompileEnd) =>
           /\ state'.activeRules = state.activeRules
           /\ objects'.arrays = objects.arrays
           /\ db'.rules = db.rules
    /\ \A ref \in DOMAIN objects.decisions :
           ref \in {state'.latestDecision, view'.latestDecision}
                       \cup { calls'[k].decision : k \in DOMAIN calls' } =>
               objects'.decisions[ref] = objects.decisions[ref]

\* C20 as stated: the list changes only by an approval or a revocation; the
\* loops never change it; no DecisionObject is modified.
C20_OnlyHumanChanges ==
    [][/\ objects'.arrays[state'.activeRules] # CurrentRules =>
              \E i \in DOMAIN calls : Approves(i) \/ Revokes(i)
       /\ LoopsReadOnly]_vars

\* C20, as the code has it: the list changes only by an approval, by a
\* revocation, or by loadRules replacing it with the rules fetched after
\* sign-in; the loops never change it; no DecisionObject is modified.
C20_HumanOrLoad ==
    [][/\ objects'.arrays[state'.activeRules] # CurrentRules =>
              \E i \in DOMAIN calls : Approves(i) \/ Revokes(i) \/ Loads(i)
       /\ LoopsReadOnly]_vars

\* C20 witness: a rule approved is in the list, after the rule loaded at
\* sign-in, and the decision it came from is still displayed.
C20_Witness ==
    /\ Len(CurrentRules) = 2
    /\ CurrentRules[1] = PersistedRule
    /\ CurrentRules[2].id \in Deployed
    /\ state.latestDecision # 0
    /\ CurrentRules[2].rule_id =
           DecisionOf(state.latestDecision).object.rule_generated.id

-----------------------------------------------------------------------------
(* The decision compiler on windows of every size class.                   *)

\* The window of the end-to-end scenario: significanceFloor events, seven in
\* ten of them of prompt class reporting at five times the cost of the
\* others, none retried, every other field the same.
reportingAt(order, i) ==
    CASE order = "first" -> i * 10 <= significanceFloor * 7
      [] order = "last" -> (i - 1) * 10 >= significanceFloor * 3
      [] OTHER -> i % 10 \in 1..7

scenarioWindow(org, model, cost, order) ==
    [i \in 1..significanceFloor |->
        IF reportingAt(order, i)
        THEN Event(org, model, s_reporting, 300, 700, 0, Null, RInt(5 * cost))
        ELSE Event(org, model, s_chat, 300, 700, 0, Null, RInt(cost))]

\* The models generateEvent draws from.
MODELS == {s_gpt_4, s_claude_3_opus, s_gpt_35_turbo}

ScenarioWindows ==
    { scenarioWindow(org, model, cost, order) :
          org \in {"acme_corp", "globex"}, model \in MODELS,
          cost \in 1..3, order \in {"first", "last", "mixed"} }

\* Mixes of the event classes; a window holds a mix a number of times over.
TrafficMixes ==
    { <<0, 1, 3, 0, 0, 0, 2, 0>>, <<0, 1, 0, 1, 1, 3, 0, 0>>, <<3, 1, 0, 0, 2, 0, 0, 0>>,
      <<0, 1, 1, 3, 0, 0, 1, 0>>, <<0, 0, 0, 2, 1, 0, 3, 0>>, <<0, 3, 1, 0, 0, 0, 0, 0>>,
      <<3, 0, 0, 1, 2, 0, 0, 0>>, <<0, 2, 3, 0, 0, 0, 1, 0>>, <<0, 0, 1, 0, 0, 2, 3, 0>>,
      <<0, 0, 0, 0, 0, 0, 1, 0>>, <<4, 0, 0, 1, 0, 0, 0, 0>>, <<0, 0, 1, 3, 0, 0, 0, 0>> }

TrafficWindows ==
    { eventsOf([k \in DOMAIN mix |-> mix[k] * times], Len(mix)) :
          mix \in TrafficMixes, times \in {1, 3, 5} }

InitTraffic ==
    /\ pc = "idle"
    /\ sample = <<>>
    /\ analysis = NullDecision
    /\ window = <<>>
    /\ report = [of |-> "nothing"]
    /\ HotIdle
    /\ ReplayIdle
    /\ AppIdle

\* The window the analysis loop finds at a tick.
Collect ==
    /\ pc = "idle"
    /\ sample' \in ScenarioWindows \cup TrafficWindows
    /\ pc' = "collected"
    /\ UNCHANGED <<analysis, window, report, hotVars, replayVars, appVars>>

\* analysis = compileDecision(sample)
AnalyzeTraffic ==
    /\ pc = "collected"
    /\ \E evs \in {sample} : analysis' = compileDecision(evs)
    /\ pc' = "analyzed"
    /\ UNCHANGED <<sample, window, report, hotVars, replayVars, appVars>>

NextTraffic == Collect \/ AnalyzeTraffic

SpecTraffic == InitTraffic /\ [][NextTraffic]_vars

Analyzed == pc = "analyzed"

-----------------------------------------------------------------------------
(* Properties of the decision compiler on these windows (SpecTraffic).     *)

EndToEnd == sample \in ScenarioWindows

\* C21: on a window of exactly 50 events, 70% of them of prompt class
\* reporting at five times the cost of the others, none retried and every
\* other dimension the same, compileDecision returns a decision whose driver
\* is prompt_class, whose rule_generated sets the model to one of a lower
\* rate than the model of every event, and whose state is not
\* INSUFFICIENT_EVIDENCE.
C21_EndToEndScenario ==
    Analyzed /\ EndToEnd =>
        /\ ~analysis.null
        /\ analysis.issue = "prompt_class"
        /\ analysis.rule_generated.action.field = "model"
        /\ analysis.rule_generated.action.op = "set"
        /\ \A i \in DOMAIN sample :
               RLess(costMap(JsString(analysis.rule_generated.action.value)),
                     costMap(sample[i].model.s))
        /\ analysis.decision_state # "INSUFFICIENT_EVIDENCE"

\* C21 witness: a scenario window of 50 events was compiled into a decision.
C21_Witness ==
    /\ Analyzed
    /\ EndToEnd
    /\ Len(sample) = 50
    /\ ~analysis.null
    /\ analysis.decision_state = "HOLD"

\* modelFitR2 = 1 - noise of the decision's variance decomposition
modelFitOf(d) == RSub(One, noiseFraction(d.proof.variance_decomposition))

AtLeastMedium == {"MEDIUM", "HIGH"}

\* C24: overfit_risk is HIGH when the window holds fewer than 100 events;
\* otherwise it is at least MEDIUM when the window holds fewer than 300
\* events or the model fit exceeds 0.98; it is LOW only when the window holds
\* at least 300 events and the model fit is at most 0.98.
C24_OverfitRisk ==
    Analyzed /\ ~analysis.null =>
        LET n == Len(sample)
            highFit == RLess(Rat(98, 100), modelFitOf(analysis))
            risk == analysis.confidence.overfit_risk
        IN /\ n < 100 => risk = "HIGH"
           /\ n >= 100 /\ (n < 300 \/ highFit) => risk \in AtLeastMedium
           /\ risk = "LOW" => n >= 300 /\ ~highFit
           /\ risk \in {"LOW", "MEDIUM", "HIGH"}

\* C24 witness: a window of at least 300 events whose model fit exceeds 0.98
\* was assessed MEDIUM.
C24_Witness ==
    /\ Analyzed
    /\ ~analysis.null
    /\ Len(sample) >= 300
    /\ RLess(Rat(98, 100), modelFitOf(analysis))
    /\ analysis.confidence.overfit_risk = "MEDIUM"

\* A window of at least 300 events was assessed LOW.
C24_Low ==
    /\ Analyzed
    /\ ~analysis.null
    /\ analysis.confidence.overfit_risk = "LOW"

\* A window of fewer than 100 events whose model fit exceeds 0.98 was
\* assessed HIGH.
C24_High ==
    /\ Analyzed
    /\ ~analysis.null
    /\ Len(sample) < 100
    /\ RLess(Rat(98, 100), modelFitOf(analysis))
    /\ analysis.confidence.overfit_risk = "HIGH"

HasReason(d, text) ==
    \E i \in DOMAIN d.decision_state_rationale : d.decision_state_rationale[i].reason = text

\* The retry causes of the decision include one that names 503.
Upstream5xx(d) ==
    \E i \in DOMAIN d.analysis_deep_dive : Includes(d.analysis_deep_dive[i].cause, <<53, 48, 51>>)

\* The tail mass of the window's own statistics exceeds 5%.
HighTail == RLess(Rat(5, 100), getStats(statsOf(sample), sample).tail_mass)

\* The parts of the rationale that do not depend on the retry causes.
RationaleOtherwise(d) ==
    /\ d.decision_state = "CONDITIONAL" =>
           /\ HasReason(d, "High tail-risk detected (>p99)") <=> HighTail
           /\ HasReason(d, "Sample size risk") <=> d.confidence.overfit_risk # "LOW"
    /\ d.decision_state = "INSUFFICIENT_EVIDENCE" =>
           d.decision_state_rationale = <<Reason("Confidence score < 0.6")>>

\* C25 as stated: in a CONDITIONAL decision the rationale holds the tail-risk
\* reason exactly when the baseline tail mass exceeds 5%, the upstream-5xx
\* reason whenever the retry causes of the window include 503, and the
\* sample-size reason exactly when the overfit risk is not LOW; in an
\* INSUFFICIENT_EVIDENCE decision it holds the low-confidence reason only.
C25_Rationale ==
    Analyzed /\ ~analysis.null =>
        /\ RationaleOtherwise(analysis)
        /\ analysis.decision_state = "CONDITIONAL" /\ Upstream5xx(analysis) =>
               HasReason(analysis, "Retry failures include upstream_503")

\* C25 amended: the same, with the upstream-5xx reason exactly when the
\* driver is retries and the retry causes of the window include 503.
C25_RationaleOfDriver ==
    Analyzed /\ ~analysis.null =>
        /\ RationaleOtherwise(analysis)
        /\ analysis.decision_state = "CONDITIONAL" =>
               (HasReason(analysis, "Retry failures include upstream_503")
                    <=> analysis.issue = "retries" /\ Upstream5xx(analysis))

\* C25 witness: a CONDITIONAL decision on retries whose rationale holds the
\* three reasons.
C25_Witness ==
    /\ Analyzed
    /\ ~analysis.null
    /\ analysis.decision_state = "CONDITIONAL"
    /\ analysis.issue = "retries"
    /\ Len(analysis.decision_state_rationale) = 3

\* A CONDITIONAL decision whose rationale is empty, and an
\* INSUFFICIENT_EVIDENCE decision on a window with 503 causes and a high tail.
C25_NoReason ==
    /\ Analyzed
    /\ ~analysis.null
    /\ analysis.decision_state = "CONDITIONAL"
    /\ analysis.decision_state_rationale = <<>>

C25_Insufficient ==
    /\ Analyzed
    /\ ~analysis.null
    /\ analysis.decision_state = "INSUFFICIENT_EVIDENCE"
    /\ Upstream5xx(analysis)

-----------------------------------------------------------------------------
(* Properties of applyAction and of a repeated replay (SpecReplay).        *)

\* The event the first replay gave for the matching input event i.
Output(i) == heap[replayed[OutputPosition(i)]]

NumericFields == {"tokens_in", "tokens_out", "retries"}

Smaller(a, b) == IF a < b THEN a ELSE b

\* x is y rounded to a whole number of tokens.
Rounded(x, y) == RLeq(RInt(x), y) /\ RLess(RSub(y, One), RInt(x))

\* C22: applyAction with a cap on a numeric field clamps that field down to
\* the cap; for retries, an event with retries > cap gets retries = cap and
\* cost_usd, tokens_in and tokens_out rescaled by (1 + cap) / (1 + retries),
\* and an event with retries <= cap is returned with every field as it was.
C22_CapClamps ==
    pc = "replayed" /\ rule.action.op = "cap" /\ rule.action.field \in NumericFields =>
        \A i \in DOMAIN batch : Matched(i) =>
            LET e == batch[i]
                out == Output(i)
                cap == rule.action.value.n
                ratio == Rat(1 + cap, 1 + e.retries.n)
            IN /\ out[rule.action.field].n = Smaller(e[rule.action.field].n, cap)
               /\ rule.action.field = "retries" =>
                      IF e.retries.n > cap
                      THEN /\ out.cost_usd = RMul(e.cost_usd, ratio)
                           /\ Rounded(out.tokens_in.n, RMul(RInt(e.tokens_in.n), ratio))
                           /\ Rounded(out.tokens_out.n, RMul(RInt(e.tokens_out.n), ratio))
                      ELSE out = e

\* C22 for the field retries alone, which holds: events above the cap and
\* events at or under it were both replayed.
C22_RetriesCap ==
    rule.action.field = "retries" => C22_CapClamps

C22_RetriesCapped ==
    /\ pc = "replayed"
    /\ rule = cap_retries_2
    /\ \E i \in DOMAIN batch : batch[i].retries.n = 3 /\ Output(i).retries.n = 2
    /\ \E i \in DOMAIN batch : batch[i].retries.n = 1 /\ Output(i) = batch[i]

\* C23: applyAction with set on field f and value v returns a new event with
\* f = v, for any field f; when f is model, cost_usd is rescaled by
\* rate(v) / rate(old model); drop gives no event, whatever the field.
C23_SetOverwrites ==
    pc = "replayed" =>
        /\ rule.action.op = "set" =>
               \A i \in DOMAIN batch : Matched(i) =>
                   /\ Output(i)[rule.action.field] = rule.action.value
                   /\ replayed[OutputPosition(i)] # events[i]
                   /\ rule.action.field = "model" =>
                          Output(i).cost_usd =
                              RMul(batch[i].cost_usd,
                                   RDiv(costMap(rule.action.value.s), costMap(batch[i].model.s)))
        /\ rule.action.op = "drop" =>
               /\ KeptPositions = { i \in DOMAIN batch : ~Matched(i) }
               /\ Len(replayed) = Cardinality(KeptPositions)

\* C23 for the field model and for drop, which hold.
C23_SetModel ==
    rule.action.field \in {"model", "retries", "event"} => C23_SetOverwrites

C23_ModelSet ==
    /\ pc = "replayed"
    /\ rule = downgrade_reporting
    /\ \E i \in DOMAIN batch : Matched(i) /\ batch[i].model = Str(s_gpt_4)
                                  /\ Output(i).model = Str(s_claude_3_haiku)

C23_Dropped ==
    /\ pc = "replayed"
    /\ rule = drop_retried
    /\ \E i \in DOMAIN batch : Matched(i)
    /\ \E i \in DOMAIN batch : ~Matched(i)

\* C30: for each rule of the catalog and every batch, replaying the output of
\* a replay again with the same rule gives the same events, field for field.
C30_ReplayIdempotent ==
    pc = "twice" /\ (\E k \in DOMAIN AVAILABLE_RULES : AVAILABLE_RULES[k] = rule) =>
        Deref(heap, replayed) = previous

\* C30 witness: the second replay ran over a batch the first had rewritten.
C30_Witness ==
    /\ pc = "twice"
    /\ \E k \in DOMAIN AVAILABLE_RULES : AVAILABLE_RULES[k] = rule
    /\ previous # batch
    /\ Deref(heap, replayed) = previous

-----------------------------------------------------------------------------
(* A StreamingStats fed with a stream longer than its reservoir.           *)

\* The stream holds at most reservoirSize + MaxOverflow values.
MaxOverflow == 3

\* The values of the stream: zeros until the reservoir is full, then values
\* that keep the running mean a whole number.
StreamValues(st) ==
    IF st.count < reservoirSize THEN {Zero}
    ELSE {st.mean, RAdd(st.mean, RInt(st.count + 1))}

\* The indices Math.floor(Math.random() * this.count) can give that differ in
\* their effect on a reservoir: the first and last slots, the first index
\* past the reservoir and the last index of all.
Draws(count) == {0, reservoirSize - 1, reservoirSize, count - 1} \cap 0..(count - 1)

InitStream ==
    /\ pc = "streaming"
    /\ report = NewStats
    /\ sample = [updates |-> 0, value |-> Zero, draw |-> 0]
    /\ HotIdle
    /\ ReplayIdle
    /\ CompileIdle
    /\ AppIdle

\* stats.update(value); `sample` records the call: how many were made, the
\* value passed and the index drawn.
Update ==
    /\ report.count < reservoirSize + MaxOverflow
    /\ \E value \in StreamValues(report), j \in Draws(report.count + 1) :
          /\ j > 0 => Len(report.reservoir) = reservoirSize
          /\ report' = update(report, value, j)
          /\ sample' = [updates |-> sample.updates + 1, value |-> value, draw |-> j]
    /\ pc' = "streaming"
    /\ UNCHANGED <<hotVars, replayVars, compileVars, appVars>>

NextStream == Update

SpecStream == InitStream /\ [][NextStream]_vars

-----------------------------------------------------------------------------
(* Properties of the reservoir (SpecStream).                               *)

\* The reservoir after the incoming value took slot j.
Replaced(reservoir, j, value) == [reservoir EXCEPT ![j + 1] = value]

\* C26: after any sequence of updates the reservoir holds at most 1000
\* values and count is the number of updates; once the reservoir is full, an
\* incoming value replaces slot j when the index j drawn in [0, count) is
\* below the capacity, and the reservoir is unchanged otherwise.
C26_ReservoirBounded ==
    /\ [](/\ Len(report.reservoir) <= 1000
          /\ Len(report.reservoir) = Smaller(sample.updates, 1000)
          /\ report.count = sample.updates)
    /\ [][Len(report.reservoir) = 1000 =>
              /\ sample'.draw \in 0..(report'.count - 1)
              /\ report'.reservoir =
                     IF sample'.draw < 1000
                     THEN Replaced(report.reservoir, sample'.draw, sample'.value)
                     ELSE report.reservoir]_vars

\* C26 witness: past the capacity, a value took the last slot of the
\* reservoir and the value after it was drawn no slot.
C26_Witness ==
    /\ sample.updates > 1001
    /\ Len(report.reservoir) = 1000
    /\ report.reservoir[1000] # Zero
    /\ report.reservoir[1000] # sample.value
    /\ sample.draw >= 1000

-----------------------------------------------------------------------------
(* The alternatives of a decision (SpecCompile).                           *)

\* The entry the decision card marks '(Selected)': i === 0.
MarkedSelected(d) == d.alternative_actions_considered[1]

Descending(alternatives) ==
    \A i, j \in DOMAIN alternatives :
        i < j => RLeq(alternatives[j].score, alternatives[i].score)

\* C29: in every decision, alternative_actions_considered is sorted by
\* descending score and its first entry, the one the card marks '(Selected)',
\* is the action of the rule selected (rule_generated).
C29_SelectedFirst ==
    Compiled /\ ~analysis.null =>
        /\ Descending(analysis.alternative_actions_considered)
        /\ MarkedSelected(analysis).action = analysis.rule_generated.id
        /\ MarkedSelected(analysis).action = analysis.recommended_action

\* The order alone, which holds, and the first entry for the driver
\* prompt_class, which is the rule selected.
C29_Sorted ==
    Compiled /\ ~analysis.null =>
        /\ Descending(analysis.alternative_actions_considered)
        /\ Len(analysis.alternative_actions_considered) = 2
        /\ analysis.issue = "prompt_class" =>
               MarkedSelected(analysis).action = analysis.rule_generated.id

C29_RetriesMarked ==
    /\ Compiled
    /\ ~analysis.null
    /\ analysis.issue = "retries"
    /\ MarkedSelected(analysis).action = "retry_only_timeout"
    /\ analysis.rule_generated.id = "cap_retries_1"

-----------------------------------------------------------------------------
(* Races of the requests of the App (SpecApp).                             *)

\* No request is in flight and no continuation is left to run.
Quiescent == \A i \in DOMAIN calls : calls[i] = Settled

\* loadRules is in flight: its fetch is sent or settled and its continuation
\* has not run.
LoadInFlight ==
    \E i \in DOMAIN calls : calls[i] # Settled /\ calls[i].at = "fetchActiveRules"

\* A deploy has completed: the list holds a rule deployed since the mount.
DeployCompleted == \E k \in DOMAIN CurrentRules : CurrentRules[k].id \in Deployed

\* The list holds every rule persisted and nothing else.
ListIsPersisted ==
    { CurrentRules[k] : k \in DOMAIN CurrentRules } = { db.rules[k] : k \in DOMAIN db.rules }

\* C27: if loadRules is still in flight when a deploy completes, then once
\* every operation has completed the list in memory holds the persisted
\* rules: no update is lost to a fetch result that has gone stale.  Stated of
\* the step that completes the last operation.
C27_NoLostUpdate ==
    [][LoadInFlight /\ DeployCompleted /\ Quiescent' => ListIsPersisted']_vars

\* The same as one state: every operation has completed, a rule deployed is
\* persisted, and the list does not hold it.
C27_LostUpdate ==
    /\ Quiescent
    /\ \E k \in DOMAIN db.rules : db.rules[k].id \in Deployed
    /\ CurrentRules = <<>>

\* The step in which submitOverride sends its feedback: the call it makes.
Submits == Len(calls') > Len(calls) /\ calls'[Len(calls')].fn = "submitOverride"

\* C28: while the override input is open, from the click on Override until
\* Submit completes or Cancel, the analysis loop does not replace
\* latestDecision, so that the OVERRIDE feedback carries the id of the
\* decision that was on screen when the override began; and no
\* INSUFFICIENT_EVIDENCE decision ever becomes latestDecision.
C28_OverridePausesLoop ==
    /\ [](state.latestDecision # 0 =>
              DecisionOf(state.latestDecision).object.decision_state # "INSUFFICIENT_EVIDENCE")
    /\ [][/\ state.showOverrideInput /\ state'.showOverrideInput =>
                 state'.latestDecision = state.latestDecision
          /\ Submits => calls'[Len(calls')].decision = view.overriding]_vars

\* The pause from the render that shows the input on, which holds.
C28_PausedOnceShown ==
    [][state.showOverrideInput /\ state'.showOverrideInput /\ view.showOverrideInput =>
           state'.latestDecision = state.latestDecision]_vars

\* The part on INSUFFICIENT_EVIDENCE, which holds: the state never refers to
\* such a decision, and the loop has compiled one.
C28_NeverInsufficient ==
    /\ state.latestDecision # 0 =>
           /\ ~DecisionOf(state.latestDecision).object.null
           /\ DecisionOf(state.latestDecision).object.decision_state # "INSUFFICIENT_EVIDENCE"
    /\ view.latestDecision # 0 =>
           DecisionOf(view.latestDecision).object.decision_state # "INSUFFICIENT_EVIDENCE"

C28_InsufficientCompiled ==
    /\ timer.running > 0
    /\ ~Analyses[window].null
    /\ Analyses[window].decision_state = "INSUFFICIENT_EVIDENCE"
    /\ state.latestDecision # 0

\* The override input is on screen over a decision other than the one that
\* was on screen when Override was clicked.
C28_Jumped ==
    /\ view.showOverrideInput
    /\ view.overriding # 0
    /\ view.latestDecision # view.overriding

====
